---- MODULE Spec2Model ----
(***************************************************************************)
(* Model of the compiler's symbol table (src/src/symbol.rs), of the        *)
(* parser's declaration handling and expression grammar (src/src/ast.rs)   *)
(* and of the generator's symbol lookup, labels, control-flow statements   *)
(* and string literals (src/src/asm.rs).                                   *)
(***************************************************************************)
EXTENDS Integers, Sequences, FiniteSets, TLC

VARIABLES
    table,      \* SymbolTable.table: the Vec<Symbol>, in registration order
    op,         \* the operation that produced the current state
    arg,        \* the Symbol handed to the last registration (<<>>: none)
    prev,       \* the table as it was before the last operation
    query,      \* the (scope, name) of the last lookup (<<>>: none)
    found,      \* result of the last lookup: <<>> None, <<sym>> Some, <<"panic">>
    cur_scope,  \* AstGen.cur_scope
    aborted,    \* the parser or the generator has panicked
    tokens,     \* AstGen.tokens: the token slice of an expression
    tree,       \* the AstType the expression parser returned (<<>>: not parsed)
    label,      \* Asm.label: the Label struct
    frames,     \* the generator's pending generate_* calls with their label locals
    inst,       \* the labels and jumps the last step appended to Asm.inst
    labels_out, \* the label numbers generate_label_inst has emitted, in order
    minted,     \* the values next_label has returned, in order
    str_count,  \* AstGen.str_count
    literals,   \* the StringLiteral nodes of the parsed tree, in order of appearance
    generated,  \* the positions in literals of the nodes the generator has visited
    const_literal, \* Asm.const_literal: one entry per .LC label
    cpu         \* the machine that runs the generated text (<<>>: nothing runs)

asmVars == <<label, frames, inst, labels_out, minted>>
strVars == <<str_count, literals, generated, const_literal>>

vars == <<table, op, arg, prev, query, found, cur_scope, aborted, tokens, tree,
          asmVars, strVars, cpu>>

\* most symbols a table holds in a modelled run
MaxSyms == 2

(***************************************************************************)
(* symbol.rs: Scope, Type, Structure, Symbol                               *)
(***************************************************************************)
Global == [kind |-> "Global", name |-> ""]
Func == [kind |-> "Func", name |-> ""]
Local(f) == [kind |-> "Local", name |-> f]

Identifier == [kind |-> "Identifier", dims |-> <<>>]
Pointer == [kind |-> "Pointer", dims |-> <<>>]
Array(v) == [kind |-> "Array", dims |-> v]

\* Symbol::new: position and offset start at 0
SymbolNew(scope, var, t, strt) ==
    [scope |-> scope, var |-> var, t |-> t, strt |-> strt, pos |-> 0, offset |-> 0]

\* Option<Symbol>: None is <<>>, Some(s) is <<s>>
None == <<>>
Some(s) == <<s>>

\* iter().filter(|s| s.scope == *scope): the subsequence of one scope
RECURSIVE FilterScope(_, _)
FilterScope(tbl, scope) ==
    IF tbl = <<>> THEN <<>>
    ELSE IF Head(tbl).scope = scope
         THEN <<Head(tbl)>> \o FilterScope(Tail(tbl), scope)
         ELSE FilterScope(Tail(tbl), scope)

\* SymbolTable::search: the first symbol with that scope and name
RECURSIVE search(_, _, _)
search(tbl, scope, var) ==
    IF tbl = <<>> THEN None
    ELSE IF Head(tbl).scope = scope /\ Head(tbl).var = var
         THEN Some(Head(tbl))
         ELSE search(Tail(tbl), scope, var)

\* SymbolTable::count_all
count_all(tbl) == Len(tbl)

\* SymbolTable::count
count(tbl, scope) == Len(FilterScope(tbl, scope))

\* SymbolTable::type_size: Int and Char are 8 bytes wide, every other type 0
type_size(t) ==
    CASE t = "Int" -> 8
      [] t = "Char" -> 8
      [] OTHER -> 0

\* v.iter().fold(1, |acc, item| acc * item)
RECURSIVE DimProduct(_)
DimProduct(v) == IF v = <<>> THEN 1 ELSE Head(v) * DimProduct(Tail(v))

\* the position and offset register_variable gives a symbol whose scope
\* already holds the symbols `same` (last one: the previous symbol)
PlaceAfterArray_one(pre_sym) ==
    [pos |-> pre_sym.pos + 1,
     offset |-> pre_sym.offset + type_size(pre_sym.t)]

PlaceAfterArray(pre_sym) ==
    [pos |-> pre_sym.pos + DimProduct(pre_sym.strt.dims),
     offset |-> pre_sym.offset + type_size(pre_sym.t) * DimProduct(pre_sym.strt.dims)]

PlaceAfterOther(pre_sym) ==
    [pos |-> pre_sym.pos + 1,
     offset |-> pre_sym.offset + type_size(pre_sym.t)]

Place(same) ==
    IF same = <<>> THEN [pos |-> 1, offset |-> 0]
    ELSE LET pre_sym == same[Len(same)]
         IN IF pre_sym.strt.kind = "Array"
            THEN PlaceAfterArray(pre_sym)
            ELSE PlaceAfterOther(pre_sym)

\* SymbolTable::register_variable
register_variable_any_scope(tbl, sym) ==
    LET p == Place(tbl)
    IN Append(tbl, [sym EXCEPT !.pos = p.pos, !.offset = p.offset])

register_variable(tbl, sym) ==
    LET p == Place(FilterScope(tbl, sym.scope))
    IN Append(tbl, [sym EXCEPT !.pos = p.pos, !.offset = p.offset])

\* SymbolTable::register_sym
register_sym_always(tbl, sym) ==
    IF sym.scope = Func
    THEN Append(tbl, [sym EXCEPT !.pos = 1, !.offset = 0])
    ELSE register_variable(tbl, sym)

register_sym_overwrite(tbl, sym) ==
    IF search(tbl, sym.scope, sym.var) = None
    THEN register_sym_always(tbl, sym)
    ELSE [i \in 1..Len(tbl) |->
             IF tbl[i].scope = sym.scope /\ tbl[i].var = sym.var
             THEN [tbl[i] EXCEPT !.t = sym.t, !.strt = sym.strt]
             ELSE tbl[i]]

register_sym(tbl, sym) ==
    IF search(tbl, sym.scope, sym.var) = None
    THEN IF sym.scope = Func
         THEN Append(tbl, [sym EXCEPT !.pos = 1, !.offset = 0])
         ELSE register_variable(tbl, sym)
    ELSE tbl

\* items.iter().fold(0, |acc2, i| acc2 + (i * self.type_size(&sym.t)))
RECURSIVE ArraySize(_, _)
ArraySize(items, t) ==
    IF items = <<>> THEN 0 ELSE Head(items) * type_size(t) + ArraySize(Tail(items), t)

\* the amount one symbol adds in the fold of SymbolTable::size
SizeOfSym(sym) ==
    CASE sym.strt.kind = "Pointer" -> 8
      [] sym.strt.kind = "Identifier" -> type_size(sym.t)
      [] sym.strt.kind = "Array" -> ArraySize(sym.strt.dims, sym.t)
      [] OTHER -> 0

RECURSIVE SumSizes(_)
SumSizes(syms) == IF syms = <<>> THEN 0 ELSE SizeOfSym(Head(syms)) + SumSizes(Tail(syms))

\* SymbolTable::size
size(tbl, scope) == SumSizes(FilterScope(tbl, scope))

(***************************************************************************)
(* ast.rs and asm.rs: lookup with fallback to the global scope.  A lookup  *)
(* returns [panic, sym]: sym is the Option<Symbol>, panic says that the    *)
(* lookup ended in expect()'s panic.                                       *)
(***************************************************************************)
Returned(o) == [panic |-> FALSE, sym |-> o]
Panicked == [panic |-> TRUE, sym |-> None]

\* AstGen::search_symbol
search_symbol_global_first(tbl, scope, var) ==
    IF search(tbl, Global, var) # None
    THEN Returned(search(tbl, Global, var))
    ELSE Returned(search(tbl, scope, var))

search_symbol(tbl, scope, var) ==
    IF scope = Global
    THEN Returned(search(tbl, scope, var))
    ELSE LET sym == search(tbl, scope, var)
         IN IF sym # None THEN Returned(sym) ELSE Returned(search(tbl, Global, var))

\* Option::expect
expect(o) == IF o = None THEN Panicked ELSE Returned(o)

\* Asm::get_var_symbol, with cur_scope the generator's current scope
get_var_symbol(tbl, cur, k) ==
    IF cur = Global
    THEN expect(search(tbl, cur, k))
    ELSE LET sym == search(tbl, cur, k)
         IN IF sym # None THEN Returned(sym) ELSE expect(search(tbl, Global, k))

\* AstGen::variable, the declaration branch: the symbol is registered unless
\* search_symbol finds the name from the current scope
variable(tbl, scope, t, strt, name) ==
    IF search_symbol(tbl, scope, name).sym = None
    THEN register_sym(tbl, SymbolNew(scope, name, t, strt))
    ELSE tbl

\* AstGen::variable_array: the same for an array declaration
variable_array(tbl, scope, t, strt, name) ==
    IF search_symbol(tbl, scope, name).sym = None
    THEN register_sym(tbl, SymbolNew(scope, name, t, strt))
    ELSE tbl

\* AstGen::func_def panics when search_symbol finds the name from Scope::Func
func_def_panics(tbl, name) == search_symbol(tbl, Func, name).sym # None

\* the table after the declarations decls, each <<type, structure, name>>,
\* are parsed in scope
RECURSIVE Declare(_, _, _)
Declare(tbl, scope, decls) ==
    IF decls = <<>>
    THEN tbl
    ELSE Declare(IF Head(decls)[2].kind = "Array"
                 THEN variable_array(tbl, scope, Head(decls)[1], Head(decls)[2], Head(decls)[3])
                 ELSE variable(tbl, scope, Head(decls)[1], Head(decls)[2], Head(decls)[3]),
                 scope, Tail(decls))

\* Structure::Struct, and the symbol of a struct definition: its type is
\* Type::Struct and regist_mem gives it the members' symbols
StructSymbol(scope, tag, members) ==
    [scope |-> scope, var |-> tag, t |-> "Struct",
     strt |-> [kind |-> "Struct", dims |-> <<>>], pos |-> 0, offset |-> 0,
     members |-> [k \in 1..Len(members) |->
                     SymbolNew(scope, members[k][3], members[k][1], members[k][2])]]

\* AstGen::struct_def: every member declaration is parsed by assign(), which
\* ends in AstGen::variable; then the tag is registered unless search_symbol
\* finds it
struct_def(tbl, scope, tag, members) ==
    IF search_symbol(Declare(tbl, scope, members), scope, tag).sym = None
    THEN register_sym(Declare(tbl, scope, members), StructSymbol(scope, tag, members))
    ELSE Declare(tbl, scope, members)

(***************************************************************************)
(* asm.rs: Label.  A function that returns a value and changes the Label   *)
(* returns [label, no]; an Option<usize> is <<>> or <<no>>.                *)
(***************************************************************************)
\* Label::new
LabelNew == [label_no |-> 0, continue_labels |-> <<>>, break_labels |-> <<>>,
             return_label |-> 0]

\* Label::next_label
next_label_stuck(l) == [label |-> l, no |-> l.label_no]

next_label(l) == [label |-> [l EXCEPT !.label_no = @ + 1], no |-> l.label_no + 1]

\* Label::next_return_label
next_return_label(l) ==
    LET n == next_label(l)
    IN [label |-> [n.label EXCEPT !.return_label = n.no], no |-> n.no]

\* Label::get_return_label
get_return_label_latest(l) == l.label_no

get_return_label(l) == l.return_label

\* Label::push_continue, pop_continue, remove_continue
push_continue(l, no) == [l EXCEPT !.continue_labels = Append(@, no)]

pop_continue(l) ==
    IF l.continue_labels = <<>>
    THEN [label |-> l, no |-> <<>>]
    ELSE [label |-> [l EXCEPT !.continue_labels = SubSeq(@, 1, Len(@) - 1)],
          no |-> <<l.continue_labels[Len(l.continue_labels)]>>]

remove_continue(l, no) ==
    [l EXCEPT !.continue_labels = SelectSeq(@, LAMBDA d : d # no)]

\* Label::push_break, pop_break, remove_break
push_break(l, no) == [l EXCEPT !.break_labels = Append(@, no)]

pop_break(l) ==
    IF l.break_labels = <<>>
    THEN [label |-> l, no |-> <<>>]
    ELSE [label |-> [l EXCEPT !.break_labels = SubSeq(@, 1, Len(@) - 1)],
          no |-> <<l.break_labels[Len(l.break_labels)]>>]

remove_break(l, no) ==
    [l EXCEPT !.break_labels = SelectSeq(@, LAMBDA d : d # no)]

\* Asm::new, the fields of the generator
AsmNew ==
    /\ label = LabelNew
    /\ frames = <<>>
    /\ inst = <<>>
    /\ labels_out = <<>>
    /\ minted = <<>>

\* AstGen::new (str_count) and Asm::new (const_literal)
StrNew ==
    /\ str_count = 0
    /\ literals = <<>>
    /\ generated = {}
    /\ const_literal = <<>>

\* AstGen::string_literal: the node and the str_count it leaves
string_literal_stale(text, cnt) ==
    [node |-> [text |-> text, index |-> cnt], str_count |-> cnt]

string_literal(text, cnt) ==
    [node |-> [text |-> text, index |-> cnt], str_count |-> cnt + 1]

\* Asm::generate_string_literal: the entry appended to const_literal
generate_string_literal(lits, node) ==
    Append(lits, [label |-> node.index, text |-> node.text])

(***************************************************************************)
(* ast.rs: the expression grammar.  A token is [type, value]; the value of *)
(* a Number token is its text, a sequence of decimal digits.  A parsing    *)
(* function takes the token slice and current_pos and returns the AstType  *)
(* it built with the current_pos it left.  AstType nodes are tuples        *)
(* <<variant, children...>>.  The parsing functions read AstGen.sym_table   *)
(* and AstGen.cur_scope from the variables table and cur_scope.  The       *)
(* factor arms modelled are the prefix operators, Number, Variable and the *)
(* parenthesised expression: the slices parsed hold no declaration, no     *)
(* sizeof, no struct and no string literal.                                *)
(***************************************************************************)
Tok(type) == [type |-> type, value |-> <<>>]
Num(digits) == [type |-> "Number", value |-> digits]
Var(name) == [type |-> "Variable", value |-> name]

\* the result of a parsing function
R(ast, pos) == [ast |-> ast, pos |-> pos]

\* a panic!() of the parser
Panic(pos) == R(<<"Panic">>, pos)

\* AstGen::next: tokens.get(current_pos), current_pos counting from 0
next(toks, pos) == toks[pos + 1]

\* str::parse::<i64> on the token's decimal text
RECURSIVE ParseI64(_)
ParseI64(digits) ==
    IF digits = <<>> THEN 0
    ELSE 10 * ParseI64(SubSeq(digits, 1, Len(digits) - 1)) + digits[Len(digits)]

\* AstGen::number
number(token) == <<"Factor", ParseI64(token.value)>>

\* the create closures: token type to AstType variant
create_logical(ope) ==
    CASE ope = "LogicalAnd" -> "LogicalAnd"
      [] ope = "Assign" -> "Assign"
      [] OTHER -> "LogicalOr"

create_bit(ope) ==
    CASE ope = "BitOr" -> "BitOr"
      [] ope = "And" -> "BitAnd"
      [] OTHER -> "BitXor"

create_relation(ope) == ope

create_shift(ope) == ope

create_add_sub(ope) == IF ope = "Plus" THEN "Plus" ELSE "Minus"

create_multi_div(ope) ==
    CASE ope = "Multi" -> "Multiple"
      [] ope = "Division" -> "Division"
      [] OTHER -> "Remainder"

\* the value of a `let` block: Only({body : r \in {x}}) is body with r bound to
\* the value of x, which is evaluated once
Only(S) == CHOOSE v \in S : TRUE

\* AstGen::must_next on the result of a sub-parse: consumes one token and
\* panics unless it has type t
must_next(toks, res, t) ==
    Only({IF next(toks, r.pos).type = t THEN R(r.ast, r.pos + 1) ELSE Panic(r.pos + 1) :
             r \in {res}})

\* a prefix operator node around the factor parsed behind it
Unary(variant, res) == Only({R(<<variant, r.ast>>, r.pos) : r \in {res}})

RECURSIVE assign(_, _), condition(_, _), sub_condition(_, _, _)
RECURSIVE logical(_, _), sub_logical(_, _, _)
RECURSIVE bit_operator(_, _), sub_bit_operator(_, _, _)
RECURSIVE relation(_, _), sub_relation(_, _, _)
RECURSIVE shift(_, _), sub_shift(_, _, _)
RECURSIVE expr(_, _), expr_add_sub(_, _, _)
RECURSIVE term(_, _), term_multi_div(_, _, _)
RECURSIVE factor(_, _), factor_variable(_, _, _), variable_ast(_, _, _, _)
RECURSIVE array_index(_, _, _), call_func(_, _, _), argment(_, _, _)
RECURSIVE expression(_, _)

\* AstGen::array_index: current_pos is at the LeftBracket
array_index_first_dim(toks, pos, s) ==
    Only({IF index.ast = <<"Panic">>
          THEN index
          ELSE IF next(toks, index.pos).type = "LeftBracket"
               THEN IF s.kind = "Array" /\ Len(s.dims) >= 2
                    THEN Only({R(<<"Plus", <<"Multiple", index.ast, <<"Factor", s.dims[1]>>>>,
                                   rest.ast>>, rest.pos) :
                                  rest \in {array_index(toks, index.pos, Array(Tail(s.dims)))}})
                    ELSE Panic(index.pos)
               ELSE index :
             index \in {must_next(toks, expression(toks, pos + 1), "RightBracket")}})

array_index(toks, pos, s) ==
    Only({IF index.ast = <<"Panic">>
          THEN index
          ELSE IF next(toks, index.pos).type = "LeftBracket"
               THEN IF s.kind = "Array" /\ Len(s.dims) >= 2
                    THEN Only({R(<<"Plus", <<"Multiple", index.ast, <<"Factor", s.dims[2]>>>>,
                                   rest.ast>>, rest.pos) :
                                  rest \in {array_index(toks, index.pos, Array(Tail(s.dims)))}})
                    ELSE Panic(index.pos)
               ELSE index :
             index \in {must_next(toks, expression(toks, pos + 1), "RightBracket")}})

\* AstGen::variable, the AstType it returns for a name that factor_variable
\* found in the table (the registration of a new name is `variable` above)
variable_ast(toks, pos, t, s) ==
    LET token == next(toks, pos)
    IN IF token.type # "Variable"
       THEN Panic(pos + 1)
       ELSE IF next(toks, pos + 1).type = "LeftBracket"
            THEN Only({R(<<"Indirect", <<"Plus", <<"Variable", t, s, token.value>>, index.ast>>>>,
                         index.pos) :
                          index \in {array_index(toks, pos + 1, s)}})
            ELSE R(<<"Variable", t, s, token.value>>, pos + 1)

\* AstGen::variable_func
variable_func(toks, pos, t, s) ==
    LET token == next(toks, pos)
    IN IF token.type = "Variable"
       THEN R(<<"Variable", t, s, token.value>>, pos + 1)
       ELSE Panic(pos + 1)

\* AstGen::argment and sub_argment: the arguments up to the RightParen
argment(toks, pos, args) ==
    IF next(toks, pos).type = "RightParen"
    THEN R(<<"Argment", args>>, pos)
    ELSE Only({IF next(toks, a.pos).type = "Comma"
               THEN argment(toks, a.pos + 1, Append(args, a.ast))
               ELSE R(<<"Argment", Append(args, a.ast)>>, a.pos) :
                  a \in {assign(toks, pos)}})

\* AstGen::call_func
call_func(toks, pos, acc) ==
    IF next(toks, pos).type = "LeftParen"
    THEN must_next(toks,
                   Only({R(<<"FuncCall", acc, args.ast>>, args.pos) :
                            args \in {argment(toks, pos + 1, <<>>)}}),
                   "RightParen")
    ELSE Panic(pos + 1)

\* AstGen::factor_variable: current_pos is at the Variable token
factor_variable(toks, pos, token) ==
    LET sym == search_symbol(table, cur_scope, token.value).sym
        fsym == search_symbol(table, Func, token.value).sym
    IN IF sym # None
       THEN Only({IF var.ast = <<"Panic">>
                  THEN var
                  ELSE CASE next(toks, var.pos).type = "Inc" ->
                                R(<<"PostInc", var.ast>>, var.pos + 1)
                         [] next(toks, var.pos).type = "Dec" ->
                                R(<<"PostDec", var.ast>>, var.pos + 1)
                         [] OTHER -> var :
                     var \in {variable_ast(toks, pos, sym[1].t, sym[1].strt)}})
       ELSE IF fsym # None
            THEN Only({call_func(toks, f.pos, f.ast) :
                          f \in {variable_func(toks, pos, fsym[1].t, fsym[1].strt)}})
            ELSE Panic(pos + 1)

\* AstGen::factor
factor(toks, pos) ==
    LET token == next(toks, pos)
    IN CASE token.type = "Inc" -> Unary("PreInc", factor(toks, pos + 1))
         [] token.type = "Dec" -> Unary("PreDec", factor(toks, pos + 1))
         [] token.type = "Plus" -> Unary("UnPlus", factor(toks, pos + 1))
         [] token.type = "Minus" -> Unary("UnMinus", factor(toks, pos + 1))
         [] token.type = "Not" -> Unary("Not", factor(toks, pos + 1))
         [] token.type = "BitReverse" -> Unary("BitReverse", factor(toks, pos + 1))
         [] token.type = "And" -> Unary("Address", factor(toks, pos + 1))
         [] token.type = "Multi" -> Unary("Indirect", factor(toks, pos + 1))
         [] token.type = "Number" -> R(number(token), pos + 1)
         [] token.type = "Variable" -> factor_variable(toks, pos, token)
         [] token.type = "LeftParen" -> must_next(toks, assign(toks, pos + 1), "RightParen")
         [] OTHER -> Panic(pos + 1)

\* AstGen::term_multi_div
term_multi_div(toks, pos, acc) ==
    LET ope == next(toks, pos)
    IN IF ope.type \in {"Multi", "Division", "Remainder"}
       THEN Only({term_multi_div(toks, right.pos, <<create_multi_div(ope.type), acc, right.ast>>) :
                     right \in {factor(toks, pos + 1)}})
       ELSE R(acc, pos)

\* AstGen::term
term(toks, pos) ==
    Only({term_multi_div(toks, left.pos, left.ast) : left \in {factor(toks, pos)}})

\* AstGen::expr_add_sub
expr_add_sub_right(toks, pos, acc) ==
    LET ope == next(toks, pos)
    IN IF ope.type \in {"Plus", "Minus"}
       THEN Only({Only({R(<<create_add_sub(ope.type), acc, rest.ast>>, rest.pos) :
                           rest \in {expr_add_sub(toks, right.pos, right.ast)}}) :
                     right \in {term(toks, pos + 1)}})
       ELSE R(acc, pos)

expr_add_sub_flat(toks, pos, acc) ==
    LET ope == next(toks, pos)
    IN IF ope.type \in {"Plus", "Minus"}
       THEN Only({expr_add_sub(toks, right.pos, <<create_add_sub(ope.type), acc, right.ast>>) :
                     right \in {factor(toks, pos + 1)}})
       ELSE R(acc, pos)

expr_add_sub(toks, pos, acc) ==
    LET ope == next(toks, pos)
    IN IF ope.type \in {"Plus", "Minus"}
       THEN Only({expr_add_sub(toks, right.pos, <<create_add_sub(ope.type), acc, right.ast>>) :
                     right \in {term(toks, pos + 1)}})
       ELSE R(acc, pos)

\* AstGen::expr
expr(toks, pos) ==
    Only({expr_add_sub(toks, left.pos, left.ast) : left \in {term(toks, pos)}})

\* AstGen::sub_shift
sub_shift(toks, pos, acc) ==
    LET token == next(toks, pos)
    IN IF token.type \in {"LeftShift", "RightShift"}
       THEN Only({sub_shift(toks, right.pos, <<create_shift(token.type), acc, right.ast>>) :
                     right \in {expr(toks, pos + 1)}})
       ELSE R(acc, pos)

\* AstGen::shift
shift(toks, pos) ==
    Only({sub_shift(toks, left.pos, left.ast) : left \in {expr(toks, pos)}})

\* AstGen::sub_relation
sub_relation(toks, pos, acc) ==
    LET ope == next(toks, pos)
    IN IF ope.type \in {"Equal", "NotEqual", "LessThan", "LessThanEqual",
                        "GreaterThan", "GreaterThanEqual"}
       THEN Only({sub_relation(toks, right.pos, <<create_relation(ope.type), acc, right.ast>>) :
                     right \in {shift(toks, pos + 1)}})
       ELSE R(acc, pos)

\* AstGen::relation
relation(toks, pos) ==
    Only({sub_relation(toks, left.pos, left.ast) : left \in {shift(toks, pos)}})

\* AstGen::sub_bit_operator
sub_bit_operator(toks, pos, acc) ==
    LET token == next(toks, pos)
    IN IF token.type \in {"BitOr", "And", "BitXor"}
       THEN Only({sub_bit_operator(toks, right.pos, <<create_bit(token.type), acc, right.ast>>) :
                     right \in {relation(toks, pos + 1)}})
       ELSE R(acc, pos)

\* AstGen::bit_operator
bit_operator(toks, pos) ==
    Only({sub_bit_operator(toks, left.pos, left.ast) : left \in {relation(toks, pos)}})

\* AstGen::sub_logical
sub_logical_right(toks, pos, acc) ==
    LET ope == next(toks, pos)
    IN IF ope.type \in {"LogicalAnd", "LogicalOr", "Assign"}
       THEN Only({Only({R(<<create_logical(ope.type), acc, rest.ast>>, rest.pos) :
                           rest \in {sub_logical(toks, right.pos, right.ast)}}) :
                     right \in {bit_operator(toks, pos + 1)}})
       ELSE R(acc, pos)

sub_logical(toks, pos, acc) ==
    LET ope == next(toks, pos)
    IN IF ope.type \in {"LogicalAnd", "LogicalOr", "Assign"}
       THEN Only({sub_logical(toks, right.pos, <<create_logical(ope.type), acc, right.ast>>) :
                     right \in {bit_operator(toks, pos + 1)}})
       ELSE R(acc, pos)

\* AstGen::logical
logical(toks, pos) ==
    Only({sub_logical(toks, left.pos, left.ast) : left \in {bit_operator(toks, pos)}})

\* AstGen::sub_condition: the middle operand, the colon, the right operand
sub_condition(toks, pos, acc) ==
    IF next(toks, pos).type = "Question"
    THEN Only({IF middle.ast = <<"Panic">>
               THEN middle
               ELSE Only({sub_condition(toks, right.pos,
                                        <<"Condition", acc, middle.ast, right.ast>>) :
                             right \in {logical(toks, middle.pos)}}) :
                  middle \in {must_next(toks, logical(toks, pos + 1), "Colon")}})
    ELSE R(acc, pos)

\* AstGen::condition
condition(toks, pos) ==
    Only({sub_condition(toks, left.pos, left.ast) : left \in {logical(toks, pos)}})

\* the assignment tokens of AstGen::assign; the AstType variant has the
\* token's name
AssignTokens == {"Assign", "PlusAssign", "MinusAssign", "MultipleAssign",
                 "DivisionAssign", "RemainderAssign"}

\* AstGen::assign: next() after next_consume() panics behind the last token
assign(toks, pos) ==
    IF pos + 2 > Len(toks)
    THEN Panic(pos + 1)
    ELSE LET token == next(toks, pos)
             next_token == next(toks, pos + 1)
         IN IF token.type = "Variable" /\ next_token.type \in AssignTokens
            THEN Only({Only({R(<<next_token.type, var.ast, right.ast>>, right.pos) :
                                right \in {condition(toks, var.pos + 1)}}) :
                          var \in {factor(toks, pos)}})
            ELSE condition(toks, pos)

\* AstGen::statement_return
statement_return(toks, pos) == Unary("Return", assign(toks, pos))

\* AstGen::expression
expression(toks, pos) ==
    IF next(toks, pos).type = "Return"
    THEN statement_return(toks, pos + 1)
    ELSE assign(toks, pos)

(***************************************************************************)
(* Inputs of the table's operations                                        *)
(***************************************************************************)
Names == {"a", "b"}
FuncNames == {"f"}
Scopes == {Global, Func} \cup {Local(f) : f \in FuncNames}

\* (type, structure) of the symbols handed to the table
Decls == {<<"Int", Identifier>>, <<"Char", Pointer>>,
          <<"Int", Array(<<2, 3>>)>>, <<"Short", Identifier>>}

\* the scopes that hold variables: the generator's cur_scope is one of them
VarScopes == Scopes \ {Func}

Symbols == {SymbolNew(sc, n, d[1], d[2]) : sc \in Scopes, n \in Names, d \in Decls}

Init ==
    /\ table = <<>>
    /\ op = "new"
    /\ arg = <<>>
    /\ prev = <<>>
    /\ query = <<>>
    /\ found = <<>>
    /\ cur_scope = Global
    /\ aborted = FALSE
    /\ tokens = <<>>
    /\ tree = <<>>
    /\ AsmNew
    /\ StrNew
    /\ cpu = <<>>

\* a call of SymbolTable::register_sym
RegisterSym(sym) ==
    /\ Len(table) < MaxSyms \/ search(table, sym.scope, sym.var) # None
    /\ table' = register_sym(table, sym)
    /\ op' = "register_sym"
    /\ arg' = Some(sym)
    /\ prev' = table
    /\ query' = <<>>
    /\ found' = <<>>
    /\ UNCHANGED <<cur_scope, aborted, tokens, tree, asmVars, strVars, cpu>>

\* the parser looks a name up (AstGen::search_symbol)
SearchSymbol(scope, var) ==
    /\ op' = "search_symbol"
    /\ query' = [scope |-> scope, var |-> var]
    /\ found' = search_symbol(table, scope, var)
    /\ arg' = <<>>
    /\ prev' = table
    /\ UNCHANGED <<table, cur_scope, aborted, tokens, tree, asmVars, strVars, cpu>>

\* the generator looks a variable up (Asm::get_var_symbol)
GetVarSymbol(scope, k) ==
    /\ op' = "get_var_symbol"
    /\ query' = [scope |-> scope, var |-> k]
    /\ found' = get_var_symbol(table, scope, k)
    /\ arg' = <<>>
    /\ prev' = table
    /\ UNCHANGED <<table, cur_scope, aborted, tokens, tree, asmVars, strVars, cpu>>

Next ==
    \/ \E sym \in Symbols : RegisterSym(sym)
    \/ \E sc \in VarScopes, n \in Names : SearchSymbol(sc, n)
    \/ \E sc \in VarScopes, n \in Names : GetVarSymbol(sc, n)

Spec == Init /\ [][Next]_vars

(***************************************************************************)
(* The parser's declarations: AstGen::parse reads the global variables     *)
(* first (cur_scope Global), then one function definition after another,   *)
(* each switching cur_scope to the function's local scope.                 *)
(***************************************************************************)
\* names of the functions a parsed program defines
DefNames == {"f", "a"}

\* (type, structure) AstGen::generate_type gives a function
FuncTypes == {<<"Int", Identifier>>, <<"Char", Pointer>>}

\* what a declaration does to the table in the current scope
Declared(t, strt, name) ==
    IF strt.kind = "Array"
    THEN variable_array(table, cur_scope, t, strt, name)
    ELSE variable(table, cur_scope, t, strt, name)

\* AstGen::global_var: a global variable declaration
GlobalVar(t, strt, name) ==
    /\ ~aborted
    /\ cur_scope = Global
    /\ Len(Declared(t, strt, name)) <= MaxSyms
    /\ table' = Declared(t, strt, name)
    /\ op' = "variable"
    /\ arg' = Some(SymbolNew(cur_scope, name, t, strt))
    /\ prev' = table
    /\ UNCHANGED <<query, found, cur_scope, aborted, tokens, tree, asmVars, strVars, cpu>>

\* AstGen::func_def
FuncDef(t, strt, name) ==
    /\ ~aborted
    /\ func_def_panics(table, name) \/ Len(table) < MaxSyms
    /\ cur_scope' = Local(name)
    /\ IF func_def_panics(table, name)
       THEN aborted' = TRUE /\ table' = table
       ELSE aborted' = FALSE /\ table' = register_sym(table, SymbolNew(Func, name, t, strt))
    /\ op' = "func_def"
    /\ arg' = Some(SymbolNew(Func, name, t, strt))
    /\ prev' = table
    /\ UNCHANGED <<query, found, tokens, tree, asmVars, strVars, cpu>>

\* a parameter or local variable declaration inside a function
LocalVar(t, strt, name) ==
    /\ ~aborted
    /\ cur_scope.kind = "Local"
    /\ Len(Declared(t, strt, name)) <= MaxSyms
    /\ table' = Declared(t, strt, name)
    /\ op' = "variable"
    /\ arg' = Some(SymbolNew(cur_scope, name, t, strt))
    /\ prev' = table
    /\ UNCHANGED <<query, found, cur_scope, aborted, tokens, tree, asmVars, strVars, cpu>>

\* AstGen::struct_def in the current scope, global or local
StructDef(tag, members) ==
    /\ ~aborted
    /\ Len(table) < MaxSyms
    /\ table' = struct_def(table, cur_scope, tag, members)
    /\ op' = "struct_def"
    /\ arg' = Some(StructSymbol(cur_scope, tag, members))
    /\ prev' = table
    /\ UNCHANGED <<query, found, cur_scope, aborted, tokens, tree, asmVars, strVars, cpu>>

NextParser ==
    \/ \E d \in Decls, n \in Names : GlobalVar(d[1], d[2], n)
    \/ \E d \in FuncTypes, n \in DefNames : FuncDef(d[1], d[2], n)
    \/ \E d \in Decls, n \in Names : LocalVar(d[1], d[2], n)
    \/ \E members \in LET x == <<"Int", Identifier, "a">>
                            y == <<"Char", Pointer, "b">>
                        IN {<<x>>, <<y>>, <<x, y>>, <<y, x>>} :
           StructDef("T", members)

SpecParser == Init /\ [][NextParser]_vars

(***************************************************************************)
(* The expression parser on token slices closed by the statement's         *)
(* semicolon: chains of operands joined by binary operators, chains of     *)
(* ternary conditionals, chains of assignments and indexed arrays, parsed  *)
(* inside a function whose table holds the variables the slices name.      *)
(***************************************************************************)
\* most binary operators in a parsed expression
MaxOps == 2

\* the texts of the Number tokens
NumberTexts == {<<1>>, <<2>>, <<1, 2>>}

ArithTokens == {"Plus", "Minus", "Multi", "Division", "Remainder"}

\* token slices  n (op n)^k ;  with k binary operators
RECURSIVE Chains(_)
Chains(k) ==
    IF k = 0 THEN {<<Num(d)>> : d \in NumberTexts}
    ELSE {c \o <<Tok(o), Num(d)>> : c \in Chains(k - 1), o \in ArithTokens, d \in NumberTexts}

RelTokens == {"Equal", "NotEqual", "LessThan", "LessThanEqual",
              "GreaterThan", "GreaterThanEqual"}

LogicalTokens == {"LogicalAnd", "LogicalOr"}

\* token slices  x (op x)^k  with operands and operators of the given sets
RECURSIVE ChainsOf(_, _, _)
ChainsOf(operands, ops, k) ==
    IF k = 0 THEN {<<x>> : x \in operands}
    ELSE {c \o <<Tok(o), x>> : c \in ChainsOf(operands, ops, k - 1), o \in ops, x \in operands}

Numbers == {Num(d) : d \in NumberTexts}

\* token slices  n (? n : n)^k
RECURSIVE Ternaries(_)
Ternaries(k) ==
    IF k = 0 THEN {<<x>> : x \in Numbers}
    ELSE {c \o <<Tok("Question"), x, Tok("Colon"), y>> :
             c \in Ternaries(k - 1), x \in Numbers, y \in Numbers}

\* the table of the function the slices are parsed in: a global a, the
\* locals b, m (int m[2][3]), w (int w[3][2]), v (char v[3]) and
\* c (int c[2][3][2]) of f
ExprScope == Local("f")

ExprTable ==
    register_sym(register_sym(register_sym(register_sym(register_sym(register_sym(<<>>,
        SymbolNew(Global, "a", "Int", Identifier)),
        SymbolNew(ExprScope, "b", "Int", Identifier)),
        SymbolNew(ExprScope, "m", "Int", Array(<<2, 3>>))),
        SymbolNew(ExprScope, "w", "Int", Array(<<3, 2>>))),
        SymbolNew(ExprScope, "v", "Char", Array(<<3>>))),
        SymbolNew(ExprScope, "c", "Int", Array(<<2, 3, 2>>)))

\* operands of the assignment chains
AssignOperands == {Var("a"), Var("b"), Num(<<1>>)}

\* the index expressions between the brackets
IndexSlices == {<<Num(<<1>>)>>, <<Num(<<1, 2>>)>>, <<Var("b")>>,
                <<Num(<<2>>), Tok("Plus"), Var("b")>>}

Bracketed(slice) == <<Tok("LeftBracket")>> \o slice \o <<Tok("RightBracket")>>

\* m[i][j], w[i][j] and v[i], and c[i][j][k] for every index tuple in range
Indexed ==
    {<<Var(n)>> \o Bracketed(i) \o Bracketed(j) :
        n \in {"m", "w"}, i \in IndexSlices, j \in IndexSlices}
    \cup {<<Var("v")>> \o Bracketed(i) : i \in IndexSlices}
    \cup {<<Var("c")>> \o Bracketed(<<Num(<<i>>)>>) \o Bracketed(<<Num(<<j>>)>>)
              \o Bracketed(<<Num(<<k>>)>>) : i \in 0..1, j \in 0..2, k \in 0..1}

Closed(S) == {c \o <<Tok("SemiColon")>> : c \in S}

ExprInputs ==
    UNION {Closed(Chains(k)) \cup Closed(ChainsOf(Numbers, RelTokens, k))
               \cup Closed(ChainsOf(Numbers, LogicalTokens, k))
               \cup Closed(Ternaries(k))
               \cup Closed(ChainsOf(AssignOperands, {"Assign"}, k + 1)) : k \in 0..MaxOps}
    \cup Closed(Indexed)

InitExpr ==
    /\ tokens \in ExprInputs
    /\ tree = <<>>
    /\ op = "new"
    /\ table = ExprTable
    /\ arg = <<>>
    /\ prev = <<>>
    /\ query = <<>>
    /\ found = <<>>
    /\ cur_scope = ExprScope
    /\ aborted = FALSE
    /\ AsmNew
    /\ StrNew
    /\ cpu = <<>>

\* AstGen::expression on the whole slice
ParseExpression ==
    /\ op = "new"
    /\ tree' = expression(tokens, 0)
    /\ op' = "expression"
    /\ UNCHANGED <<table, arg, prev, query, found, cur_scope, aborted, tokens, asmVars, strVars, cpu>>

NextExpr == ParseExpression

SpecExpr == InitExpr /\ [][NextExpr]_vars

(***************************************************************************)
(* String literals: the parser numbers the StringLiteral tokens it meets   *)
(* (AstGen::factor calls string_literal); after the parse the generator    *)
(* visits every node of the tree once, in an order that is not the order   *)
(* of appearance (generate_call_func walks the arguments in reverse).      *)
(***************************************************************************)
\* most string literals in a parsed program
MaxLits == 3

\* the texts of the StringLiteral tokens
LiteralTexts == {"s", "t"}

InitStr ==
    /\ table = <<>>
    /\ op = "new"
    /\ arg = <<>>
    /\ prev = <<>>
    /\ query = <<>>
    /\ found = <<>>
    /\ cur_scope = Global
    /\ aborted = FALSE
    /\ tokens = <<>>
    /\ tree = <<>>
    /\ AsmNew
    /\ StrNew
    /\ cpu = <<>>

\* AstGen::factor on a StringLiteral token: AstGen::string_literal
ParseStringLiteral(text) ==
    /\ generated = {} /\ const_literal = <<>>
    /\ Len(literals) < MaxLits
    /\ LET r == string_literal(text, str_count)
       IN /\ literals' = Append(literals, r.node)
          /\ str_count' = r.str_count
    /\ op' = "string_literal"
    /\ UNCHANGED <<table, arg, prev, query, found, cur_scope, aborted, tokens, tree,
                   asmVars, generated, const_literal, cpu>>

\* Asm::generate on the StringLiteral node at position k of the tree:
\* generate_string_literal, then generate_string
GenerateStringLiteral(k) ==
    /\ k \notin generated
    /\ generated' = generated \cup {k}
    /\ const_literal' = generate_string_literal(const_literal, literals[k])
    /\ inst' = <<[ins |-> "movq_lc", no |-> literals[k].index]>>
    /\ op' = "generate_string_literal"
    /\ UNCHANGED <<table, arg, prev, query, found, cur_scope, aborted, tokens, tree,
                   label, frames, labels_out, minted, str_count, literals, cpu>>

NextStr ==
    \/ \E text \in LiteralTexts : ParseStringLiteral(text)
    \/ \E k \in 1..Len(literals) : GenerateStringLiteral(k)

SpecStr == InitStr /\ [][NextStr]_vars

(***************************************************************************)
(* The generator's walk over the function definitions of a tree.  A        *)
(* generate_* call that generates a statement block in its middle is two   *)
(* steps, its part before the block and its part after it; between them    *)
(* the call is a frame that holds its label locals.  The conditions and    *)
(* the returned expressions are Factors, which need no label.  inst holds  *)
(* the labels, the jumps and the epilogue of the text a step appends.      *)
(***************************************************************************)
\* most labels minted in a run
MaxLabel == 6

\* a pending generate_* call: begin, cont and end are its label locals
\* (0: the call has no such local)
Frame(kind, begin, cont, end) == [kind |-> kind, begin |-> begin, cont |-> cont, end |-> end]

Ins(ins, no) == [ins |-> ins, no |-> no]

LoopKinds == {"while", "do", "for"}

Top == frames[Len(frames)]

Pop(stack) == SubSeq(stack, 1, Len(stack) - 1)

\* what the generator's steps leave alone
Untouched == UNCHANGED <<table, arg, prev, query, found, cur_scope, tokens, tree, strVars, cpu>>

InitAsm ==
    /\ table = <<>>
    /\ op = "new"
    /\ arg = <<>>
    /\ prev = <<>>
    /\ query = <<>>
    /\ found = <<>>
    /\ cur_scope = Global
    /\ aborted = FALSE
    /\ tokens = <<>>
    /\ tree = <<>>
    /\ AsmNew
    /\ StrNew
    /\ cpu = <<>>

\* Asm::generate_funcdef up to its generate_statement call
FuncDefEnter ==
    /\ ~aborted
    /\ frames = <<>>
    /\ Len(minted) + 1 <= MaxLabel
    /\ LET r == next_return_label(label)
       IN /\ label' = r.label
          /\ minted' = Append(minted, r.no)
          /\ frames' = <<Frame("funcdef", 0, 0, r.no)>>
    /\ inst' = <<>>
    /\ op' = "funcdef"
    /\ UNCHANGED <<aborted, labels_out>>
    /\ Untouched

\* Asm::generate_funcdef after its generate_statement call
FuncDefExit ==
    /\ ~aborted
    /\ Len(frames) = 1
    /\ inst' = <<Ins("label", Top.end), Ins("leave", 0), Ins("ret", 0)>>
    /\ labels_out' = Append(labels_out, Top.end)
    /\ frames' = <<>>
    /\ op' = "funcdef_end"
    /\ UNCHANGED <<aborted, label, minted>>
    /\ Untouched

\* Asm::generate_statement_if without else, up to the block
IfEnter ==
    /\ ~aborted
    /\ frames # <<>>
    /\ Len(minted) + 1 <= MaxLabel
    /\ LET e == next_label(label)
       IN /\ label' = e.label
          /\ minted' = Append(minted, e.no)
          /\ frames' = Append(frames, Frame("if", 0, 0, e.no))
          /\ inst' = <<Ins("jne", e.no)>>
    /\ op' = "if"
    /\ UNCHANGED <<aborted, labels_out>>
    /\ Untouched

\* Asm::generate_statement_if with else, up to the else block
IfElseEnter ==
    /\ ~aborted
    /\ frames # <<>>
    /\ Len(minted) + 2 <= MaxLabel
    /\ LET e == next_label(label)
           i == next_label(e.label)
       IN /\ label' = i.label
          /\ minted' = minted \o <<e.no, i.no>>
          /\ frames' = Append(frames, Frame("else", i.no, 0, e.no))
          /\ inst' = <<Ins("je", i.no)>>
    /\ op' = "if"
    /\ UNCHANGED <<aborted, labels_out>>
    /\ Untouched

\* Asm::generate_statement_if with else, between the else and the if block
IfElseThen ==
    /\ ~aborted
    /\ frames # <<>>
    /\ Top.kind = "else"
    /\ inst' = <<Ins("jmp", Top.end), Ins("label", Top.begin)>>
    /\ labels_out' = Append(labels_out, Top.begin)
    /\ frames' = Append(Pop(frames), Frame("then", Top.begin, 0, Top.end))
    /\ op' = "if"
    /\ UNCHANGED <<aborted, label, minted>>
    /\ Untouched

\* Asm::generate_statement_if after its last block
IfExit ==
    /\ ~aborted
    /\ frames # <<>>
    /\ Top.kind \in {"if", "then"}
    /\ inst' = IF Top.kind = "then"
               THEN <<Ins("jmp", Top.end), Ins("label", Top.end)>>
               ELSE <<Ins("label", Top.end)>>
    /\ labels_out' = Append(labels_out, Top.end)
    /\ frames' = Pop(frames)
    /\ op' = "if_end"
    /\ UNCHANGED <<aborted, label, minted>>
    /\ Untouched

\* Asm::generate_statement_while up to the block
WhileEnter ==
    /\ ~aborted
    /\ frames # <<>>
    /\ Len(minted) + 2 <= MaxLabel
    /\ LET b == next_label(label)
           e == next_label(b.label)
       IN /\ label' = push_break(push_continue(e.label, b.no), e.no)
          /\ minted' = minted \o <<b.no, e.no>>
          /\ frames' = Append(frames, Frame("while", b.no, b.no, e.no))
          /\ inst' = <<Ins("label", b.no), Ins("je", e.no)>>
          /\ labels_out' = Append(labels_out, b.no)
    /\ op' = "while"
    /\ UNCHANGED aborted
    /\ Untouched

\* Asm::generate_statement_while after the block
WhileExit ==
    /\ ~aborted
    /\ frames # <<>>
    /\ Top.kind = "while"
    /\ inst' = <<Ins("jmp", Top.begin), Ins("label", Top.end)>>
    /\ labels_out' = Append(labels_out, Top.end)
    /\ label' = remove_break(remove_continue(label, Top.begin), Top.end)
    /\ frames' = Pop(frames)
    /\ op' = "while_end"
    /\ UNCHANGED <<aborted, minted>>
    /\ Untouched

\* Asm::generate_statement_do up to the block
DoEnter ==
    /\ ~aborted
    /\ frames # <<>>
    /\ Len(minted) + 3 <= MaxLabel
    /\ LET b == next_label(label)
           c == next_label(b.label)
           e == next_label(c.label)
       IN /\ label' = push_break(push_continue(e.label, c.no), e.no)
          /\ minted' = minted \o <<b.no, c.no, e.no>>
          /\ frames' = Append(frames, Frame("do", b.no, c.no, e.no))
          /\ inst' = <<Ins("label", b.no)>>
          /\ labels_out' = Append(labels_out, b.no)
    /\ op' = "do"
    /\ UNCHANGED aborted
    /\ Untouched

\* Asm::generate_statement_do after the block
DoExit ==
    /\ ~aborted
    /\ frames # <<>>
    /\ Top.kind = "do"
    /\ inst' = <<Ins("label", Top.cont), Ins("jne", Top.begin), Ins("label", Top.end)>>
    /\ labels_out' = labels_out \o <<Top.cont, Top.end>>
    /\ label' = remove_break(remove_continue(label, Top.cont), Top.end)
    /\ frames' = Pop(frames)
    /\ op' = "do_end"
    /\ UNCHANGED <<aborted, minted>>
    /\ Untouched

\* Asm::generate_statement_for up to the block, with or without a condition
ForEnter(cond) ==
    /\ ~aborted
    /\ frames # <<>>
    /\ Len(minted) + 3 <= MaxLabel
    /\ LET b == next_label(label)
           c == next_label(b.label)
           e == next_label(c.label)
       IN /\ label' = push_break(push_continue(e.label, c.no), e.no)
          /\ minted' = minted \o <<b.no, c.no, e.no>>
          /\ frames' = Append(frames, Frame("for", b.no, c.no, e.no))
          /\ inst' = IF cond THEN <<Ins("label", b.no), Ins("je", e.no)>>
                     ELSE <<Ins("label", b.no)>>
          /\ labels_out' = Append(labels_out, b.no)
    /\ op' = "for"
    /\ UNCHANGED aborted
    /\ Untouched

\* Asm::generate_statement_for after the block
ForExit ==
    /\ ~aborted
    /\ frames # <<>>
    /\ Top.kind = "for"
    /\ inst' = <<Ins("label", Top.cont), Ins("jmp", Top.begin), Ins("label", Top.end)>>
    /\ labels_out' = labels_out \o <<Top.cont, Top.end>>
    /\ label' = remove_break(remove_continue(label, Top.cont), Top.end)
    /\ frames' = Pop(frames)
    /\ op' = "for_end"
    /\ UNCHANGED <<aborted, minted>>
    /\ Untouched

\* Asm::generate_statement_continue
Continue ==
    /\ ~aborted
    /\ frames # <<>>
    /\ LET r == pop_continue(label)
       IN /\ label' = r.label
          /\ aborted' = (r.no = <<>>)
          /\ inst' = IF r.no = <<>> THEN <<>> ELSE <<Ins("jmp", r.no[1])>>
    /\ op' = "continue"
    /\ UNCHANGED <<frames, labels_out, minted>>
    /\ Untouched

\* Asm::generate_statement_break
Break ==
    /\ ~aborted
    /\ frames # <<>>
    /\ LET r == pop_break(label)
       IN /\ label' = r.label
          /\ aborted' = (r.no = <<>>)
          /\ inst' = IF r.no = <<>> THEN <<>> ELSE <<Ins("jmp", r.no[1])>>
    /\ op' = "break"
    /\ UNCHANGED <<frames, labels_out, minted>>
    /\ Untouched

\* Asm::generate_statement_return
Return ==
    /\ ~aborted
    /\ frames # <<>>
    /\ inst' = <<Ins("jmp", get_return_label(label))>>
    /\ op' = "return"
    /\ UNCHANGED <<aborted, label, frames, labels_out, minted>>
    /\ Untouched

\* Asm::generate_logical_and, generate_logical_or and generate_condition on
\* Factor operands: an expression statement that takes two labels
Logical(jump) ==
    /\ ~aborted
    /\ frames # <<>>
    /\ Len(minted) + 2 <= MaxLabel
    /\ LET f == next_label(label)
           e == next_label(f.label)
       IN /\ label' = e.label
          /\ minted' = minted \o <<f.no, e.no>>
          /\ inst' = <<Ins(jump, f.no), Ins("jmp", e.no), Ins("label", f.no),
                       Ins("label", e.no)>>
          /\ labels_out' = labels_out \o <<f.no, e.no>>
    /\ op' = "logical"
    /\ UNCHANGED <<aborted, frames>>
    /\ Untouched

NextAsm ==
    \/ FuncDefEnter
    \/ FuncDefExit
    \/ IfEnter
    \/ IfElseEnter
    \/ IfElseThen
    \/ IfExit
    \/ WhileEnter
    \/ WhileExit
    \/ DoEnter
    \/ DoExit
    \/ \E cond \in BOOLEAN : ForEnter(cond)
    \/ ForExit
    \/ Continue
    \/ Break
    \/ Return
    \/ \E jump \in {"je", "jne"} : Logical(jump)

SpecAsm == InitAsm /\ [][NextAsm]_vars

(***************************************************************************)
(* asm.rs: the instruction text.  Asm.inst is a sequence of lines, one     *)
(* record per line the backend returns: op names the backend operation of  *)
(* the gen_asm() call, src and dst its register or symbol operands (""     *)
(* where it has none) and imm its number (0 where it has none).  A         *)
(* generate_* function takes the generator (its fields inst,               *)
(* const_literal, label and cur_scope, and abort for a panic) and returns   *)
(* the generator it leaves; Asm.sym_table is the variable table.           *)
(***************************************************************************)
I(o, src, dst, imm) == [op |-> o, src |-> src, dst |-> dst, imm |-> imm]

\* const REGS
REGS == <<"rdi", "rsi", "rdx", "rcx", "r8", "r9">>

\* Asm::new with the scope the generator is switched to
AsmOf(scope) ==
    [inst |-> <<>>, const_literal |-> <<>>, label |-> LabelNew, cur_scope |-> scope,
     abort |-> FALSE]

\* self.inst = format!("{}{}", self.inst, ...)
Emit(g, lines) == [g EXCEPT !.inst = @ \o lines]

\* panic!, expect on None and process::abort
Abort(g) == [g EXCEPT !.abort = TRUE]

\* AstType::is_expr
is_expr(ast) == ast[1] \notin {"If", "For", "Do", "Continue", "Break", "Return", "While"}

\* Symbol.size, the displacement generate_lvalue_address gives lea for an
\* array: the array's byte size, element count times type width
SymbolSize(sym) == type_size(sym.t) * DimProduct(sym.strt.dims)

RECURSIVE generate(_, _)

\* Asm::generate_lvalue_address
generate_lvalue_address(g, a) ==
    IF a[1] # "Variable"
    THEN Abort(g)
    ELSE LET r == get_var_symbol(table, g.cur_scope, a[4])
         IN IF r.panic
            THEN Abort(g)
            ELSE IF r.sym[1].scope = Global
                 THEN Emit(g, <<I("lea_glb", a[4], "rax", 0), I("push", "rax", "", 0)>>)
                 ELSE IF r.sym[1].strt.kind = "Array"
                      THEN Emit(g, <<I("lea", "", "rax", SymbolSize(r.sym[1])),
                                     I("push", "rax", "", 0)>>)
                      ELSE Emit(g, <<I("lea", "", "rax", r.sym[1].offset + 8),
                                     I("push", "rax", "", 0)>>)

\* Asm::generate_address
generate_address(g, a) ==
    IF a[1] # "Variable"
    THEN Abort(g)
    ELSE LET r == get_var_symbol(table, g.cur_scope, a[4])
         IN IF r.panic
            THEN Abort(g)
            ELSE Emit(g, <<I("lea", "", "rax", r.sym[1].offset + 8),
                           I("push", "rax", "", 0)>>)

\* Asm::generate_variable and generate_variable_by_strt
generate_variable(g, a) ==
    LET g1 == generate_lvalue_address(g, a)
        sym == get_var_symbol(table, g.cur_scope, a[4]).sym[1]
    IN IF g1.abort
       THEN g1
       ELSE CASE sym.strt.kind = "Pointer" ->
                     Emit(g1, <<I("pop", "", "rcx", 0), I("movq_src", "rcx", "rax", 0),
                                I("push", "rax", "", 0)>>)
              [] sym.strt.kind = "Array" ->
                     Emit(g1, <<I("pop", "", "rcx", 0), I("movq", "rcx", "rax", 0),
                                I("push", "rax", "", 0)>>)
              [] sym.strt.kind = "Identifier" /\ sym.t = "Int" ->
                     Emit(g1, <<I("pop", "", "rcx", 0), I("movl_src", "rcx", "eax", 0),
                                I("push", "rax", "", 0)>>)
              [] sym.strt.kind = "Identifier" /\ sym.t = "Char" ->
                     Emit(g1, <<I("pop", "", "rcx", 0), I("movsbl_src", "rcx", "eax", 0),
                                I("push", "rax", "", 0)>>)
              [] sym.strt.kind = "Struct" ->
                     Emit(g1, <<I("pop", "", "rcx", 0), I("push", "rax", "", 0)>>)
              [] OTHER -> Abort(Emit(g1, <<I("pop", "", "rcx", 0)>>))

\* Asm::generate_assign and generate_assign_indirect
generate_assign(g, a, b) ==
    CASE a[1] = "Variable" ->
             Emit(generate(generate_lvalue_address(g, a), b),
                  <<I("pop", "", "rcx", 0), I("pop", "", "rax", 0),
                    IF a[3].kind # "Pointer" /\ a[2] = "Char"
                    THEN I("movb_dst", "cl", "rax", 0)
                    ELSE I("mov_dst", "rcx", "rax", 0),
                    I("push", "rcx", "", 0)>>)
      [] a[1] = "Indirect" ->
             Emit(generate(generate(g, a[2]), b),
                  <<I("pop", "", "rax", 0), I("pop", "", "rcx", 0),
                    I("mov_dst", "rax", "rcx", 0), I("push", "rax", "", 0)>>)
      [] OTHER -> generate(g, b)

\* Asm::generate_plus_assign, generate_minus_assign, generate_multiple_assign,
\* generate_division_assign and generate_remainder_assign: the address, the
\* right-hand side, then lines that pop both and store, none of which pushes
generate_compound_assign(g, kind, a, b) ==
    LET g2 == generate(generate_lvalue_address(g, a), b)
        \* the transfer is a byte for a Type::Char variable
        byte == get_var_symbol(table, g.cur_scope, a[4]).sym[1].t = "Char"
        lines ==
            CASE kind = "PlusAssign" ->
                     <<I("pop", "", "rax", 0), I("pop", "", "rcx", 0), I("add_src", "rcx", "rax", 0),
                       IF byte THEN I("movb_dst", "al", "rcx", 0) ELSE I("mov_dst", "rax", "rcx", 0)>>
              [] kind = "MinusAssign" ->
                     <<I("pop", "", "rax", 0), I("pop", "", "rcx", 0), I("mov_src", "rcx", "rdx", 0),
                       I("sub", "rax", "rdx", 0),
                       IF byte THEN I("movb_dst", "dl", "rcx", 0) ELSE I("mov_dst", "rdx", "rcx", 0)>>
              [] kind = "MultipleAssign" ->
                     <<I("pop", "", "rax", 0), I("pop", "", "rcx", 0), I("mov_src", "rcx", "rdx", 0),
                       I("mul", "rdx", "", 0),
                       IF byte THEN I("movb_dst", "al", "rcx", 0) ELSE I("mov_dst", "rax", "rcx", 0)>>
              [] kind = "DivisionAssign" ->
                     <<I("pop", "", "rcx", 0), I("pop", "", "rbx", 0), I("mov_src", "rbx", "rax", 0),
                       I("bit_division", "", "", 0),
                       IF byte THEN I("movb_dst", "al", "rbx", 0) ELSE I("mov_dst", "rax", "rbx", 0)>>
              [] kind = "RemainderAssign" ->
                     <<I("pop", "", "rcx", 0), I("pop", "", "rbx", 0), I("mov_src", "rbx", "rax", 0),
                       I("bit_division", "", "", 0),
                       IF byte THEN I("movb_dst", "dl", "rbx", 0) ELSE I("mov_dst", "rdx", "rbx", 0)>>
    IN IF a[1] # "Variable"
       THEN Abort(g)
       ELSE IF g2.abort THEN g2 ELSE Emit(g2, lines)

\* Asm::generate_post_inc, generate_post_dec, generate_pre_inc, generate_pre_dec
generate_inc_dec(g, kind, a) ==
    LET g1 == generate_lvalue_address(g, a)
        step == IF a[3].kind = "Identifier" THEN 1 ELSE 8
        ins == IF kind \in {"PostInc", "PreInc"}
               THEN I("add_imm", "", "rax", step)
               ELSE I("sub_imm", "", "rax", step)
    IN IF g1.abort
       THEN g1
       ELSE IF a[3].kind \notin {"Identifier", "Pointer"}
            THEN Abort(g1)
            ELSE IF kind \in {"PostInc", "PostDec"}
                 THEN Emit(g1, <<I("pop", "", "rcx", 0), I("mov_src", "rcx", "rax", 0),
                                 I("push", "rax", "", 0), ins,
                                 I("mov_dst", "rax", "rcx", 0)>>)
                 ELSE Emit(g1, <<I("pop", "", "rcx", 0), I("mov_src", "rcx", "rax", 0),
                                 ins, I("mov_dst", "rax", "rcx", 0),
                                 I("push", "rax", "", 0)>>)

\* Asm::generate_plus, generate_plus_variable and generate_plus_with_pointer
generate_plus(g, a, b) ==
    IF a[1] = "Variable" /\ a[3].kind \in {"Pointer", "Array"}
    THEN Emit(generate(generate(g, a), b),
              <<I("pop", "", "rax", 0), I("mov_imm", "", "rcx", 8), I("mul", "rcx", "", 0),
                I("pop", "", "rcx", 0), I("add", "rax", "rcx", 0), I("push", "rcx", "", 0)>>)
    ELSE Emit(generate(generate(g, a), b),
              <<I("pop", "", "rcx", 0), I("pop", "", "rax", 0), I("plus", "", "", 0),
                I("push", "rax", "", 0)>>)

\* Asm::generate_minus and generate_minus_with_pointer
generate_minus(g, a, b) ==
    IF /\ a[1] = "Variable"
       /\ a[3].kind = "Pointer"
       /\ \/ b[1] = "Variable" /\ b[2] \in {"Int", "Char"}
          \/ b[1] = "Factor"
    THEN Emit(generate(generate(g, a), b),
              <<I("pop", "", "rax", 0), I("mov_imm", "", "rcx", 8), I("mul", "rcx", "", 0),
                I("pop", "", "rcx", 0), I("sub", "rax", "rcx", 0), I("push", "rcx", "", 0)>>)
    ELSE Emit(generate(generate(g, a), b),
              <<I("pop", "", "rcx", 0), I("pop", "", "rax", 0), I("minus", "", "", 0),
                I("push", "rax", "", 0)>>)

\* Asm::generate_condition
generate_condition(g, a, b, c) ==
    LET f == next_label(g.label)
        s == next_label(f.label)
        l == [g |-> [g EXCEPT !.label = s.label], first |-> f.no, second |-> s.no]
        g1 == Emit(generate(l.g, a), <<I("pop", "", "rax", 0), I("cmpl", "", "rax", 0),
                                       I("je", "", "", l.first)>>)
        g2 == Emit(generate(g1, b), <<I("jmp", "", "", l.second),
                                      I("label", "", "", l.first)>>)
    IN Emit(generate(g2, c), <<I("label", "", "", l.second)>>)

\* Asm::generate_logical_and
generate_logical_and_eager(g, a, b) ==
    LET f == next_label(g.label)
        s == next_label(f.label)
        l == [g |-> [g EXCEPT !.label = s.label], first |-> f.no, second |-> s.no]
        g1 == Emit(generate(l.g, a), <<I("pop", "", "rax", 0), I("cmpl", "", "rax", 0),
                                       I("cmpl", "", "rax", 0)>>)
        g2 == Emit(generate(g1, b), <<I("pop", "", "rax", 0), I("cmpl", "", "rax", 0),
                                      I("je", "", "", l.first)>>)
    IN Emit(g2, <<I("mov_imm", "", "rax", 1), I("jmp", "", "", l.second),
                  I("label", "", "", l.first), I("mov_imm", "", "rax", 0),
                  I("label", "", "", l.second), I("push", "rax", "", 0)>>)

generate_logical_and(g, a, b) ==
    LET f == next_label(g.label)
        s == next_label(f.label)
        l == [g |-> [g EXCEPT !.label = s.label], first |-> f.no, second |-> s.no]
        g1 == Emit(generate(l.g, a), <<I("pop", "", "rax", 0), I("cmpl", "", "rax", 0),
                                       I("je", "", "", l.first)>>)
        g2 == Emit(generate(g1, b), <<I("pop", "", "rax", 0), I("cmpl", "", "rax", 0),
                                      I("je", "", "", l.first)>>)
    IN Emit(g2, <<I("mov_imm", "", "rax", 1), I("jmp", "", "", l.second),
                  I("label", "", "", l.first), I("mov_imm", "", "rax", 0),
                  I("label", "", "", l.second), I("push", "rax", "", 0)>>)

\* Asm::generate_logical_or
generate_logical_or(g, a, b) ==
    LET f == next_label(g.label)
        s == next_label(f.label)
        l == [g |-> [g EXCEPT !.label = s.label], first |-> f.no, second |-> s.no]
        g1 == Emit(generate(l.g, a), <<I("pop", "", "rax", 0), I("cmpl", "", "rax", 0),
                                       I("jne", "", "", l.first)>>)
        g2 == Emit(generate(g1, b), <<I("pop", "", "rax", 0), I("cmpl", "", "rax", 0),
                                      I("jne", "", "", l.first)>>)
    IN Emit(g2, <<I("mov_imm", "", "rax", 0), I("jmp", "", "", l.second),
                  I("label", "", "", l.first), I("mov_imm", "", "rax", 1),
                  I("label", "", "", l.second), I("push", "rax", "", 0)>>)

\* Asm::generate_statement: every node of the block, each expression
\* followed by the pop of its value
RECURSIVE generate_statement(_, _)
generate_statement(g, a) ==
    IF a[1] # "Statement"
    THEN Abort(g)
    ELSE IF a[2] = <<>>
         THEN g
         ELSE generate_statement(
                  IF is_expr(Head(a[2]))
                  THEN Emit(generate(g, Head(a[2])), <<I("pop", "", "rax", 0)>>)
                  ELSE generate(g, Head(a[2])),
                  <<"Statement", Tail(a[2])>>)

\* Asm::generate_statement_if: c is the Option of the else block
generate_statement_if(g, a, b, c) ==
    LET e == next_label(g.label)
        g1 == Emit(generate([g EXCEPT !.label = e.label], a),
                   <<I("pop", "", "rax", 0), I("cmpl", "", "rax", 1)>>)
        i == next_label(g1.label)
        g2 == Emit(generate(Emit([g1 EXCEPT !.label = i.label], <<I("je", "", "", i.no)>>),
                            c[1]),
                   <<I("jmp", "", "", e.no), I("label", "", "", i.no)>>)
    IN IF c # <<>>
       THEN Emit(generate(g2, b), <<I("jmp", "", "", e.no), I("label", "", "", e.no)>>)
       ELSE Emit(generate(Emit(g1, <<I("jne", "", "", e.no)>>), b),
                 <<I("label", "", "", e.no)>>)

\* Asm::generate_statement_while
generate_statement_while(g, a, b) ==
    LET f == next_label(g.label)
        s == next_label(f.label)
        l == [g |-> [g EXCEPT !.label = s.label], first |-> f.no, second |-> s.no]
        g1 == Emit([l.g EXCEPT !.label = push_break(push_continue(@, l.first), l.second)],
                   <<I("label", "", "", l.first)>>)
        g2 == Emit(generate(g1, a), <<I("pop", "", "rax", 0), I("cmpl", "", "rax", 0),
                                      I("je", "", "", l.second)>>)
        g3 == Emit(generate(g2, b), <<I("jmp", "", "", l.first),
                                      I("label", "", "", l.second)>>)
    IN [g3 EXCEPT !.label = remove_break(remove_continue(@, l.first), l.second)]

\* Asm::generate_statement_do: a is the block, b the condition
generate_statement_do(g, a, b) ==
    LET f == next_label(g.label)
        s == next_label(f.label)
        t == next_label(s.label)
        l == [g |-> [g EXCEPT !.label = t.label], first |-> f.no, second |-> s.no,
              third |-> t.no]
        g1 == Emit([l.g EXCEPT !.label = push_break(push_continue(@, l.second), l.third)],
                   <<I("label", "", "", l.first)>>)
        g2 == Emit(generate(g1, a), <<I("label", "", "", l.second)>>)
        g3 == Emit(generate(g2, b), <<I("pop", "", "rax", 0), I("cmpl", "", "rax", 0),
                                      I("jne", "", "", l.first),
                                      I("label", "", "", l.third)>>)
    IN [g3 EXCEPT !.label = remove_break(remove_continue(@, l.second), l.third)]

\* Asm::generate_statement_for: a, b and c are the Options of the clauses
generate_statement_for(g, a, b, c, d) ==
    LET f == next_label(g.label)
        s == next_label(f.label)
        t == next_label(s.label)
        l == [g |-> [g EXCEPT !.label = t.label], first |-> f.no, second |-> s.no,
              third |-> t.no]
        g0 == [l.g EXCEPT !.label = push_break(push_continue(@, l.second), l.third)]
        g1 == Emit(IF a # <<>>
                   THEN Emit(generate(g0, a[1]), <<I("pop", "", "rax", 0)>>)
                   ELSE g0,
                   <<I("label", "", "", l.first)>>)
        g2 == IF b # <<>>
              THEN Emit(generate(g1, b[1]), <<I("pop", "", "rax", 0), I("cmpl", "", "rax", 0),
                                              I("je", "", "", l.third)>>)
              ELSE g1
        g3 == Emit(generate(g2, d), <<I("label", "", "", l.second)>>)
        g4 == Emit(IF c # <<>>
                   THEN Emit(generate(g3, c[1]), <<I("pop", "", "rax", 0)>>)
                   ELSE g3,
                   <<I("jmp", "", "", l.first), I("label", "", "", l.third)>>)
    IN [g4 EXCEPT !.label = remove_break(remove_continue(@, l.second), l.third)]

\* Asm::generate_call_func
generate_call_func(g, lhs, rhs) ==
    LET v == rhs[2]
        \* v.iter().rev().for_each(|d| self.generate(d)): the last k arguments
        pushed[k \in 0..Len(v)] ==
            IF k = 0 THEN g ELSE generate(pushed[k - 1], v[Len(v) - k + 1])
        \* v.iter().zip(REGS.iter()): the pops of the first k arguments
        zipped == IF Len(v) < Len(REGS) THEN Len(v) ELSE Len(REGS)
        pops[k \in 0..zipped] ==
            IF k = 0
            THEN <<>>
            ELSE pops[k - 1] \o
                 (IF v[k][1] = "Variable" /\ v[k][3].kind = "Pointer"
                  THEN <<I("pop", "", REGS[k], 0)>>
                  ELSE <<I("pop", "", "rax", 0), I("mov", "rax", REGS[k], 0)>>)
    IN IF lhs[1] = "Variable" /\ search(table, Func, lhs[4]) # None
       THEN IF rhs[1] = "Argment"
            THEN Emit(pushed[Len(v)],
                      pops[zipped] \o <<I("call", lhs[4], "", 0), I("push", "rax", "", 0)>>)
            ELSE Abort(g)
       ELSE Abort(g)

\* Asm::generate_funcdef with generate_func_start, generate_func_args and
\* generate_func_end: a is the name, b the Argment node, c the block
generate_funcdef(g, a, b, c) ==
    LET r == next_return_label(g.label)
        \* generate_func_start: the frame is size(scope) rounded down to a
        \* multiple of 16, plus 16
        start ==
            Emit([g EXCEPT !.label = r.label],
                 (IF a = "main"
                  THEN <<I(".text", "", "", 0), I(".global", a, "", 0)>>
                  ELSE <<I(".text", "", "", 0)>>)
                 \o <<I("symbol", a, "", 0), I("push", "rbp", "", 0),
                      I("mov", "rsp", "rbp", 0),
                      I("sub_imm", "", "rsp", (size(table, Local(a)) \div 16) * 16 + 16)>>)
        \* generate_func_args: parameter k goes from REGS[k] to rbp-8k
        zipped == IF Len(b[2]) < Len(REGS) THEN Len(b[2]) ELSE Len(REGS)
        stores[k \in 0..zipped] ==
            IF k = 0
            THEN <<>>
            ELSE stores[k - 1] \o
                 (IF b[2][k][1] = "Variable" /\ b[2][k][3].kind = "Pointer"
                  THEN <<I("mov_dst", REGS[k], "rbp", 0 - 8 * k)>>
                  ELSE <<I("mov", REGS[k], "rax", 0),
                         I("mov_dst", "rax", "rbp", 0 - 8 * k)>>)
    IN IF b[1] # "Argment"
       THEN Abort(start)
       ELSE Emit(generate_statement(Emit(start, stores[zipped]), c),
                 <<I("label", "", "", r.no), I("leave", "", "", 0), I("ret", "", "", 0)>>)

\* Asm::generate_global and generate_global_assign
generate_global(g, a) ==
    LET assigned(d) == d[1] = "Assign" /\ d[3][1] = "Factor" /\ d[2][1] = "Variable"
                           /\ d[2][2] \in {"Int", "Char"}
        lines(d) ==
            CASE assigned(d) ->
                     <<I("symbol", d[2][4], "", 0),
                       I(IF d[2][2] = "Int" THEN ".long" ELSE ".byte", "", "", d[3][2])>>
              [] d[1] = "Variable" -> <<I("symbol", d[4], "", 0), I(".zero", "", "", 8)>>
              [] OTHER -> <<>>
        all[k \in 0..Len(a)] == IF k = 0 THEN <<>> ELSE all[k - 1] \o lines(a[k])
        g1 == Emit(g, <<I(".data", "", "", 0)>> \o all[Len(a)])
    IN IF \A k \in 1..Len(a) : assigned(a[k]) \/ a[k][1] \in {"Variable", "Struct"}
       THEN g1
       ELSE Abort(g1)

\* Asm::generate
generate(g, ast) ==
    CASE ast[1] = "Global" -> generate_global([g EXCEPT !.cur_scope = Global], ast[2])
      [] ast[1] = "FuncDef" ->
             generate_funcdef([g EXCEPT !.cur_scope = Local(ast[4])], ast[4], ast[5], ast[6])
      [] ast[1] = "FuncCall" -> generate_call_func(g, ast[2], ast[3])
      [] ast[1] = "Statement" -> generate_statement(g, ast)
      [] ast[1] = "While" -> generate_statement_while(g, ast[2], ast[3])
      [] ast[1] = "Do" -> generate_statement_do(g, ast[2], ast[3])
      [] ast[1] = "If" -> generate_statement_if(g, ast[2], ast[3], ast[4])
      [] ast[1] = "For" -> generate_statement_for(g, ast[2], ast[3], ast[4], ast[5])
      [] ast[1] \in {"Continue", "Break"} ->
             \* generate_statement_continue and generate_statement_break
             LET r == IF ast[1] = "Continue" THEN pop_continue(g.label)
                      ELSE pop_break(g.label)
             IN IF r.no = <<>>
                THEN Abort([g EXCEPT !.label = r.label])
                ELSE Emit([g EXCEPT !.label = r.label], <<I("jmp", "", "", r.no[1])>>)
      [] ast[1] = "Return" ->
             \* generate_statement_return
             Emit(IF is_expr(ast[2])
                  THEN Emit(generate(g, ast[2]), <<I("pop", "", "rax", 0)>>)
                  ELSE generate(g, ast[2]),
                  <<I("jmp", "", "", get_return_label(g.label))>>)
      [] ast[1] \in {"SizeOf", "Factor"} ->
             Emit(g, <<I("mov_imm", "", "rax", ast[2]), I("push", "rax", "", 0)>>)
      [] ast[1] = "LogicalAnd" -> generate_logical_and(g, ast[2], ast[3])
      [] ast[1] = "LogicalOr" -> generate_logical_or(g, ast[2], ast[3])
      [] ast[1] = "Condition" -> generate_condition(g, ast[2], ast[3], ast[4])
      [] ast[1] = "UnPlus" -> generate(g, ast[2])
      [] ast[1] = "UnMinus" ->
             Emit(generate(g, ast[2]), <<I("pop", "", "rax", 0), I("neg", "", "rax", 0),
                                         I("push", "rax", "", 0)>>)
      [] ast[1] = "Not" ->
             Emit(generate(g, ast[2]), <<I("pop", "", "rax", 0), I("cmpl", "", "rax", 0),
                                         I("set", "", "al", 0), I("movz", "al", "rax", 0),
                                         I("push", "rax", "", 0)>>)
      [] ast[1] = "BitReverse" ->
             Emit(generate(g, ast[2]), <<I("pop", "", "rax", 0), I("not", "", "rax", 0),
                                         I("push", "rax", "", 0)>>)
      [] ast[1] = "Assign" -> generate_assign(g, ast[2], ast[3])
      [] ast[1] \in {"PlusAssign", "MinusAssign", "MultipleAssign", "DivisionAssign",
                     "RemainderAssign"} ->
             generate_compound_assign(g, ast[1], ast[2], ast[3])
      [] ast[1] = "Variable" -> generate_variable(g, ast)
      [] ast[1] \in {"PreInc", "PreDec", "PostInc", "PostDec"} ->
             generate_inc_dec(g, ast[1], ast[2])
      [] ast[1] = "Plus" -> generate_plus(g, ast[2], ast[3])
      [] ast[1] = "Minus" -> generate_minus(g, ast[2], ast[3])
      [] ast[1] \in {"Multiple", "Division", "Remainder", "Equal", "NotEqual", "LessThan",
                     "GreaterThan", "LessThanEqual", "GreaterThanEqual", "LeftShift",
                     "RightShift", "BitAnd", "BitOr", "BitXor"} ->
             \* generate_operator and operator: the backend operation has the
             \* name of the node, except bit_division for Division and Remainder
             Emit(generate(generate(g, ast[2]), ast[3]),
                  <<I("pop", "", "rcx", 0), I("pop", "", "rax", 0),
                    IF ast[1] \in {"Division", "Remainder"}
                    THEN I("bit_division", "", "", 0)
                    ELSE I(ast[1], "", "", 0),
                    IF ast[1] = "Remainder"
                    THEN I("push", "rdx", "", 0)
                    ELSE I("push", "rax", "", 0)>>)
      [] ast[1] = "Address" -> generate_address(g, ast[2])
      [] ast[1] = "Indirect" ->
             Emit(generate(g, ast[2]), <<I("pop", "", "rax", 0), I("mov_src", "rax", "rcx", 0),
                                         I("push", "rcx", "", 0)>>)
      [] ast[1] = "StringLiteral" ->
             Emit([g EXCEPT !.const_literal =
                       generate_string_literal(@, [text |-> ast[2], index |-> ast[3]])],
                  <<I("movq_lc", "", "rax", ast[3]), I("push", "rax", "", 0)>>)
      [] ast[1] = "Struct" -> g
      [] OTHER -> Abort(g)

\* Asm::get_inst: the lines of the string literals, three for each, then inst
get_inst(g) ==
    LET literal[k \in 0..Len(g.const_literal)] ==
            IF k = 0
            THEN <<>>
            ELSE literal[k - 1] \o
                 <<I(".text", "", "", 0), I(".LC", "", "", g.const_literal[k].label),
                   I(".string", g.const_literal[k].text, "", 0)>>
    IN literal[Len(g.const_literal)] \o g.inst

(***************************************************************************)
(* The generated text at run time.  The backend's operations are x86-64    *)
(* instructions; the machine holds the registers, the memory cells of the  *)
(* variables and the values pushed and not yet popped.  Addresses are      *)
(* numbers: the frame pointer rbp is 0, so the cell lea(d) names is -d,    *)
(* and the data section lies above it, a global at 8 times its place in    *)
(* the table.  A pop from the empty stack and a load from a cell no        *)
(* variable owns read a value the text did not put there (junk).           *)
(***************************************************************************)
\* most instructions executed in a run
MaxSteps == 40

\* the address of the global variable name
GlobalAddress(name) ==
    8 * (CHOOSE k \in 1..Len(table) : table[k].scope = Global /\ table[k].var = name)

\* the machine before the first instruction, with memory mem: the six
\* argument registers hold the caller's arguments 11 .. 16
CpuNew(mem) ==
    [pc |-> 1, stack |-> <<>>, under |-> 0,
     reg |-> [r \in {"rax", "rcx", "rdx", "rbx", "rdi", "rsi", "r8", "r9", "rbp"} |->
                 IF \E k \in 1..Len(REGS) : REGS[k] = r
                 THEN 10 + (CHOOSE k \in 1..Len(REGS) : REGS[k] = r)
                 ELSE 0],
     mem |-> mem, zf |-> FALSE, base |-> 0, trace |-> {}, calls |-> <<>>, steps |-> 0]

\* the machine after the instruction at pc
Exec(m, code, junk) ==
    LET ins == code[m.pc]
        \* the register a register name is a part of
        Wide(r) == CASE r \in {"al", "eax"} -> "rax"
                     [] r = "cl" -> "rcx"
                     [] r = "dl" -> "rdx"
                     [] OTHER -> r
        \* the line a jump to label no continues at: past the end of the
        \* text if the text holds no such label
        Target(no) ==
            IF \E k \in 1..Len(code) : code[k].op = "label" /\ code[k].imm = no
            THEN CHOOSE k \in 1..Len(code) : code[k].op = "label" /\ code[k].imm = no
            ELSE Len(code) + 1
        n == [m EXCEPT !.pc = @ + 1, !.trace = @ \cup {m.pc}, !.steps = @ + 1]
        src == m.reg[Wide(ins.src)]
        dst == m.reg[Wide(ins.dst)]
        rax == m.reg["rax"]
        rcx == m.reg["rcx"]
        load(addr) == IF addr \in DOMAIN m.mem THEN m.mem[addr] ELSE junk
        store(addr, v) ==
            [n EXCEPT !.mem = [x \in DOMAIN m.mem \cup {addr} |->
                                  IF x = addr THEN v ELSE m.mem[x]]]
        set(r, v) == [n EXCEPT !.reg[Wide(r)] = v]
        flag(b) == set("rax", IF b THEN 1 ELSE 0)
        jump(b) == IF b THEN [n EXCEPT !.pc = Target(ins.imm)] ELSE n
    IN CASE ins.op = "push" -> [n EXCEPT !.stack = Append(@, src)]
         [] ins.op = "pop" ->
                IF m.stack = <<>>
                THEN [set(ins.dst, junk) EXCEPT !.under = @ + 1]
                ELSE [set(ins.dst, m.stack[Len(m.stack)]) EXCEPT
                          !.stack = SubSeq(@, 1, Len(@) - 1)]
         [] ins.op = "mov" /\ ins.src = "rsp" -> [n EXCEPT !.base = Len(m.stack)]
         [] ins.op \in {"mov", "movq"} /\ ins.src # "rsp" -> set(ins.dst, src)
         [] ins.op = "mov_imm" -> set(ins.dst, ins.imm)
         [] ins.op \in {"mov_dst", "movb_dst"} -> store(dst + ins.imm, src)
         [] ins.op \in {"mov_src", "movq_src", "movl_src", "movsbl_src"} ->
                set(ins.dst, load(src + ins.imm))
         [] ins.op = "add_src" -> set(ins.dst, dst + load(src + ins.imm))
         [] ins.op = "add" -> set(ins.dst, dst + src)
         [] ins.op = "sub" -> set(ins.dst, dst - src)
         [] ins.op = "add_imm" -> set(ins.dst, dst + ins.imm)
         [] ins.op = "sub_imm" /\ ins.dst # "rsp" -> set(ins.dst, dst - ins.imm)
         [] ins.op = "mul" -> set("rax", rax * src)
         [] ins.op = "plus" -> set("rax", rax + rcx)
         [] ins.op = "minus" -> set("rax", rax - rcx)
         [] ins.op = "Multiple" -> set("rax", rax * rcx)
         [] ins.op = "bit_division" ->
                IF rcx > 0 /\ rax >= 0
                THEN [set("rax", rax \div rcx) EXCEPT !.reg["rdx"] = rax % rcx]
                ELSE [set("rax", junk) EXCEPT !.reg["rdx"] = junk]
         [] ins.op = "Equal" -> flag(rax = rcx)
         [] ins.op = "NotEqual" -> flag(rax # rcx)
         [] ins.op = "LessThan" -> flag(rax < rcx)
         [] ins.op = "GreaterThan" -> flag(rax > rcx)
         [] ins.op = "LessThanEqual" -> flag(rax <= rcx)
         [] ins.op = "GreaterThanEqual" -> flag(rax >= rcx)
         [] ins.op = "lea" -> set("rax", 0 - ins.imm)
         [] ins.op = "lea_glb" -> set("rax", GlobalAddress(ins.src))
         [] ins.op = "cmpl" -> [n EXCEPT !.zf = (dst = ins.imm)]
         [] ins.op = "set" -> flag(m.zf)
         [] ins.op = "neg" -> set("rax", 0 - rax)
         [] ins.op = "not" -> set("rax", 0 - rax - 1)
         [] ins.op = "jmp" -> jump(TRUE)
         [] ins.op = "je" -> jump(m.zf)
         [] ins.op = "jne" -> jump(~m.zf)
         [] ins.op = "call" ->
                [set("rax", junk) EXCEPT
                     !.calls = Append(@, [k \in 1..Len(REGS) |-> m.reg[REGS[k]]])]
         [] ins.op = "leave" ->
                [n EXCEPT !.stack = SubSeq(@, 1, m.base - 1)]
         [] ins.op = "ret" -> [n EXCEPT !.pc = Len(code) + 1]
         [] ins.op \in {"LeftShift", "RightShift", "BitAnd", "BitOr", "BitXor", "movq_lc"} ->
                set("rax", junk)
         [] OTHER -> n

(***************************************************************************)
(* Programs: the table the parser leaves and the trees the generator is    *)
(* handed.  The generator runs on a whole tree (Asm::exec from             *)
(* Scope::Unknown) or on one node of a function's block, in the scope of   *)
(* that function; the machine then runs the text from its first line.      *)
(***************************************************************************)
RunInputs ==
    LET F == Local("f")
        H == Local("h")
        \* int f(int a, int* p, char b) { int i; int m[3][3]; ... }
        ParamsF == <<<<"Int", Identifier, "a">>, <<"Int", Pointer, "p">>,
                     <<"Char", Identifier, "b">>>>
        TableF ==
            Declare(register_sym(<<>>, SymbolNew(Func, "f", "Int", Identifier)), F,
                    ParamsF \o <<<<"Int", Identifier, "i">>, <<"Int", Array(<<3, 3>>), "m">>>>)
        \* int g; int c; int h(int c, int d) { ... }
        ParamsH == <<<<"Int", Identifier, "c">>, <<"Int", Identifier, "d">>>>
        TableH ==
            Declare(register_sym(Declare(<<>>, Global, <<<<"Int", Identifier, "g">>,
                                                        <<"Int", Identifier, "c">>>>),
                                 SymbolNew(Func, "h", "Int", Identifier)),
                    H, ParamsH)
        \* AstType::Variable for the symbol of name n that the scope sees
        VarOf(tbl, scope, n) ==
            <<"Variable", search_symbol(tbl, scope, n).sym[1].t,
              search_symbol(tbl, scope, n).sym[1].strt, n>>
        \* the Variable nodes of declarations, as AstGen::variable returns them
        VariablesOf(decls) ==
            [k \in 1..Len(decls) |-> <<"Variable", decls[k][1], decls[k][2], decls[k][3]>>]
        a == VarOf(TableF, F, "a")
        i == VarOf(TableF, F, "i")
        p == VarOf(TableF, F, "p")
        b == VarOf(TableF, F, "b")
        m == VarOf(TableF, F, "m")
        g == VarOf(TableH, H, "g")
        c == VarOf(TableH, H, "c")
        d == VarOf(TableH, H, "d")
        f == <<"Variable", "Int", Identifier, "f">>
        one == <<"Factor", 1>>
        then == <<"Statement", <<<<"Assign", i, <<"Factor", 5>>>>>>>>
        else == <<"Statement", <<<<"Assign", i, <<"Factor", 6>>>>>>>>
        conds == {<<"Factor", 0>>, one, <<"Factor", 2>>, a}
        rights == {<<"Factor", 0>>, <<"Factor", 2>>, <<"PreInc", i>>,
                   <<"FuncCall", f, <<"Argment", <<>>>>>>}
        ints == {one, i, <<"Plus", i, one>>, <<"Multiple", i, <<"Factor", 2>>>>}
        \* the nodes of f's block that are generated and run on their own
        exprs ==
            {one, a, p, b, m, <<"SizeOf", 4>>, <<"StringLiteral", "s", 0>>,
             <<"Struct", <<"Variable", "Int", Identifier, "tag">>, <<a>>>>,
             <<"Assign", i, <<"Plus", a, one>>>>, <<"Assign", b, one>>,
             <<"Assign", <<"Indirect", <<"Address", i>>>>, one>>,
             <<"Indirect", <<"Address", a>>>>,
             <<"FuncCall", f, <<"Argment", <<a, p, one>>>>>>,
             <<"FuncCall", f, <<"Argment", <<<<"Plus", a, one>>, i>>>>>>,
             <<"Condition", a, one, <<"Factor", 2>>>>}
            \cup {<<k, i, x>> : k \in {"PlusAssign", "MinusAssign", "MultipleAssign",
                                       "DivisionAssign", "RemainderAssign"},
                                x \in {one, a}}
            \cup {<<k, i>> : k \in {"PreInc", "PreDec", "PostInc", "PostDec"}}
            \cup {<<k, a>> : k \in {"UnPlus", "UnMinus", "Not", "BitReverse"}}
            \cup {<<k, a, i>> : k \in {"Multiple", "Division", "Remainder", "Equal",
                                       "NotEqual", "LessThan", "GreaterThan",
                                       "LessThanEqual", "GreaterThanEqual", "Plus",
                                       "Minus", "BitAnd"}}
            \cup {<<k, x, y>> : k \in {"LogicalAnd", "LogicalOr"}, x \in conds, y \in rights}
            \cup {<<"Address", v>> : v \in {a, p, b, i, m}}
            \cup {<<k, p, e>> : k \in {"Plus", "Minus"}, e \in ints}
        stmts ==
            {<<"If", x, then, <<>>>> : x \in conds}
            \cup {<<"If", x, then, <<else>>>> : x \in conds}
            \cup {<<"While", x, then>> : x \in conds}
            \cup {<<"Do", then, x>> : x \in conds}
            \cup {<<"For", <<>>, <<x>>, <<>>, then>> : x \in conds}
            \cup {<<"For", <<<<"Assign", i, one>>>>, <<<<"LessThan", i, <<"Factor", 3>>>>>>,
                    <<<<"PreInc", i>>>>, <<"Statement", <<<<"Continue">>>>>>>>,
                  <<"While", a, <<"Statement", <<<<"Break">>>>>>>>,
                  <<"Do", <<"Statement", <<<<"PostDec", i>>, <<"Continue">>>>>>, i>>,
                  <<"Return", <<"Plus", a, one>>>>,
                  <<"Statement", <<<<"Assign", i, a>>, <<"PlusAssign", i, one>>>>>>,
                  <<"Statement", <<<<"PreInc", i>>, <<"If", i, then, <<>>>>>>>>,
                  <<"Continue">>, <<"Break">>}
        \* the nodes of h's block the same way: g is a global, c a parameter
        \* of the name of a global
        nodesH == {g, c, d, <<"Address", g>>, <<"Address", d>>, <<"Assign", g, d>>,
                   <<"PreInc", g>>, <<"Plus", c, d>>}
        \* the trees AstGen::parse returns: a Global node for the global
        \* variables, if there are any, then the function definitions
        defF(body) == <<"FuncDef", "Int", Identifier, "f", <<"Argment", VariablesOf(ParamsF)>>,
                        <<"Statement", body>>>>
        defH(body) == <<"FuncDef", "Int", Identifier, "h", <<"Argment", VariablesOf(ParamsH)>>,
                        <<"Statement", body>>>>
        Unknown == [kind |-> "Unknown", name |-> ""]
    IN {[table |-> TableF, scope |-> F, tree |-> <<n>>] : n \in exprs \cup stmts}
       \cup {[table |-> TableH, scope |-> H, tree |-> <<n>>] : n \in nodesH}
       \cup {[table |-> TableF, scope |-> Unknown, tree |-> <<defF(body)>>] :
                 body \in {<<>>,
                           <<<<"Return", a>>>>,
                           <<<<"Assign", i, <<"Plus", a, one>>>>, <<"Return", i>>>>,
                           <<<<"Assign", i, <<"StringLiteral", "s", 0>>>>, <<"Return", i>>>>}}
       \cup {[table |-> TableH, scope |-> Unknown,
              tree |-> <<<<"Global", globals>>, defH(body)>>] :
                 globals \in {<<g, c>>, <<<<"Assign", g, <<"Factor", 2>>>>, c>>},
                 body \in {<<<<"Return", d>>>>,
                           <<<<"Assign", g, d>>, <<"Return", <<"StringLiteral", "s", 0>>>>>>}}

InitRun ==
    /\ \E input \in RunInputs :
           /\ table = input.table
           /\ cur_scope = input.scope
           /\ tree = input.tree
           /\ LET tbl == input.table
                  \* one cell per scalar or pointer variable: the one its lea
                  \* or lea_glb names
                  owners == {k \in 1..Len(tbl) :
                                 tbl[k].scope # Func
                                     /\ tbl[k].strt.kind \in {"Identifier", "Pointer"}}
                  cell(k) == IF tbl[k].scope = Global
                             THEN 8 * k
                             ELSE 0 - (tbl[k].offset + 8)
                  \* an int holds 0, 1 or 2 before the text runs, the others 16
                  values(k) == IF tbl[k].t = "Int" /\ tbl[k].strt.kind = "Identifier"
                               THEN {0, 1, 2}
                               ELSE {16}
              IN \E v \in {w \in [owners -> {0, 1, 2, 16}] :
                                \A k \in owners : w[k] \in values(k)} :
                     cpu = CpuNew([x \in {cell(k) : k \in owners} |->
                                      v[CHOOSE k \in owners : cell(k) = x]])
    /\ op = "new"
    /\ arg = None
    /\ prev = <<>>
    /\ query = <<>>
    /\ found = <<>>
    /\ aborted = FALSE
    /\ tokens = <<>>
    /\ frames = <<>>
    /\ labels_out = <<>>
    /\ minted = <<>>
    /\ label = LabelNew
    /\ inst = <<>>
    /\ StrNew

\* Asm::exec, generate on every node of the tree, then get_inst
AsmExec ==
    /\ op = "new"
    /\ LET done[k \in 0..Len(tree)] ==
               IF k = 0 THEN AsmOf(cur_scope) ELSE generate(done[k - 1], tree[k])
           g == done[Len(tree)]
       IN /\ inst' = get_inst(g)
          /\ label' = g.label
          /\ const_literal' = g.const_literal
          /\ aborted' = g.abort
    /\ op' = "exec"
    /\ UNCHANGED <<table, arg, prev, query, found, cur_scope, tokens, tree, frames,
                   labels_out, minted, str_count, literals, generated, cpu>>

\* the machine executes the line at pc; junk is what a load of a cell no
\* variable owns, a pop of the empty stack or a call's return gives
CpuStep(junk) ==
    /\ op \in {"exec", "step"}
    /\ ~aborted
    /\ cpu.pc <= Len(inst)
    /\ cpu.steps < MaxSteps
    /\ cpu' = Exec(cpu, inst, junk)
    /\ op' = "step"
    /\ UNCHANGED <<table, arg, prev, query, found, cur_scope, aborted, tokens, tree,
                   asmVars, strVars>>

NextRun ==
    \/ AsmExec
    \/ \E junk \in {0, 3} : CpuStep(junk)

SpecRun == InitRun /\ [][NextRun]_vars

(***************************************************************************)
(* Vocabulary of the claims                                                *)
(***************************************************************************)
\* the symbol handed to the last register_sym call
Arg == arg[1]

SameKey(s1, s2) == s1.scope = s2.scope /\ s1.var = s2.var

\* what the caller supplied: every field except position and offset
SameDecl(s1, s2) == SameKey(s1, s2) /\ s1.t = s2.t /\ s1.strt = s2.strt

IsPrefix(s, t) == Len(s) <= Len(t) /\ SubSeq(t, 1, Len(s)) = s

\* element count: 1 for scalars and pointers, the product of the declared
\* dimensions for arrays
ElementCount(sym) == IF sym.strt.kind = "Array" THEN DimProduct(sym.strt.dims) ELSE 1

\* footprint: the pointer width for a pointer, the type width for a scalar,
\* (product of the dimensions) * type width for an array
Footprint(sym) ==
    CASE sym.strt.kind = "Pointer" -> 8
      [] sym.strt.kind = "Array" -> DimProduct(sym.strt.dims) * type_size(sym.t)
      [] OTHER -> type_size(sym.t)

RECURSIVE SumFootprints(_)
SumFootprints(syms) ==
    IF syms = <<>> THEN 0 ELSE Footprint(Head(syms)) + SumFootprints(Tail(syms))

\* C1: the table holds at most one symbol per (scope, name); registering a
\* symbol whose (scope, name) is present leaves the table unchanged; a search
\* that found a symbol before a registration finds the same symbol after it,
\* and the symbol found for a newly registered key is the one registered.
C1_UniqueKeys ==
    /\ \A i, j \in 1..Len(table) : SameKey(table[i], table[j]) => i = j
    /\ op = "register_sym" =>
           /\ search(prev, Arg.scope, Arg.var) # None =>
                  table = prev /\ count_all(table) = count_all(prev)
           /\ search(prev, Arg.scope, Arg.var) = None =>
                  /\ search(table, Arg.scope, Arg.var) # None
                  /\ SameDecl(search(table, Arg.scope, Arg.var)[1], Arg)
           /\ \A sc \in Scopes, n \in Names :
                  search(prev, sc, n) # None => search(table, sc, n) = search(prev, sc, n)

\* a second registration of a key, with another type or structure, happened
\* and the table kept the first
C1_Witness ==
    /\ op = "register_sym"
    /\ \E i \in 1..Len(table) : SameKey(table[i], Arg) /\ ~SameDecl(table[i], Arg)

\* C2: a variable symbol that is the first of its scope has position 1 and
\* offset 0; any other has the position and offset of the previous symbol of
\* its scope plus that symbol's element count, resp. element count * width.
C2_PositionOffset ==
    \A i \in 1..Len(table) :
        table[i].scope # Func =>
            LET earlier == FilterScope(SubSeq(table, 1, i - 1), table[i].scope)
                previous == earlier[Len(earlier)]
            IN IF earlier = <<>>
               THEN table[i].pos = 1 /\ table[i].offset = 0
               ELSE /\ table[i].pos = previous.pos + ElementCount(previous)
                    /\ table[i].offset = previous.offset
                           + ElementCount(previous) * type_size(previous.t)

\* a variable was registered after an array and after a scalar of its scope
C2_Witness ==
    /\ op = "register_sym"
    /\ Len(table) = 2
    /\ table[1].scope = table[2].scope
    /\ table[1].scope # Func
    /\ table[1].strt.kind = "Array"
    /\ table[2].pos = 7 /\ table[2].offset = 48

\* C3: within one variable scope the offsets strictly increase in
\* registration order and each equals the sum of the footprints of the
\* symbols registered earlier in that scope.
C3_OffsetsCumulative ==
    \A sc \in VarScopes :
        LET same == FilterScope(table, sc)
        IN \A i \in 1..Len(same) :
               /\ same[i].offset = SumFootprints(SubSeq(same, 1, i - 1))
               /\ i > 1 => same[i - 1].offset < same[i].offset

\* C4: size(scope) is the sum of the footprints of the scope's symbols, and
\* equals the last symbol's offset plus that symbol's footprint.
C4_SizeIsFootprintSum ==
    \A sc \in VarScopes :
        LET same == FilterScope(table, sc)
        IN /\ size(table, sc) = SumFootprints(same)
           /\ same # <<>> =>
                  size(table, sc) = same[Len(same)].offset + Footprint(same[Len(same)])

\* the position and offset a variable symbol gets when registered next
Assigned(tbl, s) ==
    LET t2 == register_variable(tbl, s)
    IN [pos |-> t2[Len(t2)].pos, offset |-> t2[Len(t2)].offset]

\* C5: a search finds only symbols of the scope searched; a symbol whose key
\* is new is stored whatever the other scopes hold; and a registration in one
\* scope changes, for every other scope, neither count, size, any search
\* result nor the position and offset its next symbol will get.
C5_ScopesIndependent ==
    /\ \A sc \in Scopes, n \in Names :
           search(table, sc, n) # None =>
               search(table, sc, n)[1].scope = sc /\ search(table, sc, n)[1].var = n
    /\ op = "register_sym" =>
           /\ (\A i \in 1..Len(prev) : ~SameKey(prev[i], Arg)) =>
                  /\ search(table, Arg.scope, Arg.var) # None
                  /\ count(table, Arg.scope) = count(prev, Arg.scope) + 1
           /\ \A sc \in Scopes \ {Arg.scope} :
                  /\ count(table, sc) = count(prev, sc)
                  /\ size(table, sc) = size(prev, sc)
                  /\ \A n \in Names : search(table, sc, n) = search(prev, sc, n)
                  /\ \A s \in Symbols :
                         s.scope = sc /\ sc # Func =>
                             Assigned(table, s) = Assigned(prev, s)

\* the same name is stored in Global and in a local scope
C5_Witness ==
    /\ op = "register_sym"
    /\ Len(table) = Len(prev) + 1
    /\ \E n \in Names, f \in FuncNames :
           search(table, Global, n) # None /\ search(table, Local(f), n) # None

\* C6: every register_sym call appends exactly one symbol at the end or
\* changes nothing; the symbols already stored stay as they are, in order.
C6_AppendOnly ==
    op = "register_sym" =>
        \/ table = prev
        \/ Len(table) = Len(prev) + 1 /\ IsPrefix(prev, table)

\* a symbol was appended behind a stored one
C6_Witness ==
    /\ op = "register_sym"
    /\ Len(prev) = 1 /\ Len(table) = 2
    /\ SameDecl(table[2], Arg)

\* C7: a lookup from a function's local scope returns the local symbol of
\* that name when the table has one, the global symbol of that name when only
\* the global scope has one, and fails exactly when neither scope has it;
\* the parser's and the generator's lookup behave alike.
HasSym(sc, n) == \E i \in 1..Len(table) : table[i].scope = sc /\ table[i].var = n

FoundIn(sc) ==
    /\ ~found.panic
    /\ found.sym # None
    /\ found.sym[1].scope = sc
    /\ found.sym[1].var = query.var
    /\ \E i \in 1..Len(table) : table[i] = found.sym[1]

LookupFailed ==
    IF op = "get_var_symbol" THEN found.panic ELSE ~found.panic /\ found.sym = None

C7_LocalThenGlobal ==
    (op \in {"search_symbol", "get_var_symbol"} /\ query.scope.kind = "Local") =>
        /\ HasSym(query.scope, query.var) => FoundIn(query.scope)
        /\ (~HasSym(query.scope, query.var) /\ HasSym(Global, query.var)) => FoundIn(Global)
        /\ LookupFailed <=> (~HasSym(query.scope, query.var) /\ ~HasSym(Global, query.var))

\* the generator looked up a name that both scopes hold and got the local one
C7_Witness ==
    /\ op = "get_var_symbol"
    /\ query.scope.kind = "Local"
    /\ HasSym(query.scope, query.var) /\ HasSym(Global, query.var)
    /\ FoundIn(query.scope)

\* C8: declaring a local variable in a function, with the name of a declared
\* global variable, registers a symbol of the declared type under the
\* function's local scope and leaves the global symbol as it was.
C8_LocalBesideGlobal ==
    (op = "variable" /\ cur_scope.kind = "Local" /\ HasSym(Global, Arg.var)) =>
        /\ \E i \in 1..Len(table) : SameDecl(table[i], Arg)
        /\ search(table, Global, Arg.var) = search(prev, Global, Arg.var)

\* C9: a function definition aborts exactly when a function of that name has
\* been defined before; otherwise the function symbol is registered in the
\* function namespace and parsing goes on.
C9_DuplicateFunctionOnly ==
    op = "func_def" =>
        /\ aborted <=> (\E i \in 1..Len(prev) : prev[i].scope = Func /\ prev[i].var = Arg.var)
        /\ ~aborted => HasSym(Func, Arg.var)

\* C10: multiplicative operators bind tighter than additive ones:
\* a + b * c parses to Plus(a, Multiple(b, c)) and a * b + c to
\* Plus(Multiple(a, b), c), likewise for the other operators of both levels.
IsAdd(t) == t.type \in {"Plus", "Minus"}
IsMul(t) == t.type \in {"Multi", "Division", "Remainder"}
Operand(t) == <<"Factor", ParseI64(t.value)>>
AddNode(t) == IF t.type = "Plus" THEN "Plus" ELSE "Minus"
MulNode(t) ==
    CASE t.type = "Multi" -> "Multiple"
      [] t.type = "Division" -> "Division"
      [] OTHER -> "Remainder"

C10_MulBindsTighter ==
    (op = "expression" /\ Len(tokens) = 6) =>
        /\ (IsAdd(tokens[2]) /\ IsMul(tokens[4])) =>
               tree.ast = <<AddNode(tokens[2]), Operand(tokens[1]),
                            <<MulNode(tokens[4]), Operand(tokens[3]), Operand(tokens[5])>>>>
        /\ (IsMul(tokens[2]) /\ IsAdd(tokens[4])) =>
               tree.ast = <<AddNode(tokens[4]),
                            <<MulNode(tokens[2]), Operand(tokens[1]), Operand(tokens[3])>>,
                            Operand(tokens[5])>>
        /\ tree.pos = 5

\* 1 + 2 * 12 was parsed
C10_Witness ==
    /\ op = "expression"
    /\ tokens = <<Num(<<1>>), Tok("Plus"), Num(<<2>>), Tok("Multi"), Num(<<1, 2>>),
                  Tok("SemiColon")>>
    /\ tree.ast = <<"Plus", <<"Factor", 1>>, <<"Multiple", <<"Factor", 2>>, <<"Factor", 12>>>>>>

\* the AstType of an operand token: a number, or a variable of the table
OperandOf(t) ==
    IF t.type = "Number"
    THEN <<"Factor", ParseI64(t.value)>>
    ELSE LET sym == search_symbol(table, cur_scope, t.value).sym[1]
         IN <<"Variable", sym.t, sym.strt, t.value>>

\* the AstType variant of a binary operator token
NodeOf(t) ==
    CASE t.type = "Multi" -> "Multiple"
      [] OTHER -> t.type

\* the slice is  x op x ... op x ;  with operands and operators of these types
IsChain(toks, operandTypes, ops) ==
    /\ Len(toks) % 2 = 0
    /\ toks[Len(toks)].type = "SemiColon"
    /\ \A i \in 1..(Len(toks) - 1) :
           IF i % 2 = 1 THEN toks[i].type \in operandTypes ELSE toks[i].type \in ops

OpCount(toks) == (Len(toks) - 2) \div 2

\* (...((x1 op x2) op x3)... op x(k+1))
RECURSIVE LeftFold(_, _)
LeftFold(toks, k) ==
    IF k = 0 THEN OperandOf(toks[1])
    ELSE <<NodeOf(toks[2 * k]), LeftFold(toks, k - 1), OperandOf(toks[2 * k + 1])>>

\* (xi op (x(i+1) op (... op xn)))
RECURSIVE RightFold(_, _)
RightFold(toks, i) ==
    IF toks[i + 1].type = "SemiColon" THEN OperandOf(toks[i])
    ELSE <<NodeOf(toks[i + 1]), OperandOf(toks[i]), RightFold(toks, i + 2)>>

\* the operator sets of one precedence level each
Levels == {{"Plus", "Minus"}, {"Multi", "Division", "Remainder"}, RelTokens}

\* C11: a chain of binary operators of one precedence level (additive,
\* multiplicative or relational) parses left-associatively, whatever its
\* length: x1 - x2 - ... - xn yields Minus(...Minus(Minus(x1, x2), x3)..., xn).
C11_LeftAssociative ==
    op = "expression" =>
        \A L \in Levels :
            IsChain(tokens, {"Number"}, L) =>
                tree = R(LeftFold(tokens, OpCount(tokens)), Len(tokens) - 1)

\* 1 - 2 - 12 was parsed to Minus(Minus(1, 2), 12)
C11_Witness ==
    /\ op = "expression"
    /\ tokens = <<Num(<<1>>), Tok("Minus"), Num(<<2>>), Tok("Minus"), Num(<<1, 2>>),
                  Tok("SemiColon")>>
    /\ tree.ast = <<"Minus", <<"Minus", <<"Factor", 1>>, <<"Factor", 2>>>>, <<"Factor", 12>>>>

\* C12: logical-and binds tighter than logical-or: a || b && c parses to
\* LogicalOr(a, LogicalAnd(b, c)).
C12_AndBindsTighter ==
    (/\ op = "expression"
     /\ IsChain(tokens, {"Number"}, LogicalTokens)
     /\ OpCount(tokens) = 2
     /\ tokens[2].type = "LogicalOr" /\ tokens[4].type = "LogicalAnd") =>
        tree.ast = <<"LogicalOr", OperandOf(tokens[1]),
                     <<"LogicalAnd", OperandOf(tokens[3]), OperandOf(tokens[5])>>>>

\* C12, amended: logical-and and logical-or share one precedence level and
\* associate to the left: a || b && c parses to LogicalAnd(LogicalOr(a, b), c).
C12_LogicalOneLevel ==
    (op = "expression" /\ IsChain(tokens, {"Number"}, LogicalTokens)) =>
        tree = R(LeftFold(tokens, OpCount(tokens)), Len(tokens) - 1)

\* 1 || 2 && 12 was parsed to LogicalAnd(LogicalOr(1, 2), 12)
C12_Witness ==
    /\ op = "expression"
    /\ tokens = <<Num(<<1>>), Tok("LogicalOr"), Num(<<2>>), Tok("LogicalAnd"), Num(<<1, 2>>),
                  Tok("SemiColon")>>
    /\ tree.ast = <<"LogicalAnd", <<"LogicalOr", <<"Factor", 1>>, <<"Factor", 2>>>>,
                    <<"Factor", 12>>>>

\* the slice is  a ? b : c ? d : e ;  over numbers
IsTernaryPair(toks) ==
    /\ Len(toks) = 10
    /\ \A i \in {1, 3, 5, 7, 9} : toks[i].type = "Number"
    /\ toks[2].type = "Question" /\ toks[4].type = "Colon"
    /\ toks[6].type = "Question" /\ toks[8].type = "Colon"

\* C13: the ternary conditional is right-associative: a ? b : c ? d : e
\* parses to Condition(a, b, Condition(c, d, e)).
C13_TernaryRightAssociative ==
    (op = "expression" /\ IsTernaryPair(tokens)) =>
        tree.ast = <<"Condition", OperandOf(tokens[1]), OperandOf(tokens[3]),
                     <<"Condition", OperandOf(tokens[5]), OperandOf(tokens[7]),
                       OperandOf(tokens[9])>>>>

\* C14: assignment is right-associative for chains of any length: for
\* declared variables, a = b = c = d parses to Assign(a, Assign(b, Assign(c, d))).
C14_AssignRightAssociative ==
    (op = "expression" /\ IsChain(tokens, {"Variable"}, {"Assign"})) =>
        tree = R(RightFold(tokens, 1), Len(tokens) - 1)

\* the AstType of the index expression in a slice between brackets
IndexAst(slice) == expression(slice \o <<Tok("RightBracket")>>, 0).ast

\* the declared shape of a variable of the table
Shape(name) == search_symbol(table, cur_scope, name).sym[1].strt.dims

\* C15: a[i][j] on an array declared with shape [d0, d1] parses to
\* Indirect(Plus(Variable a, Plus(Multiple(i, Factor(d1)), j))), and a[i] on
\* a one-dimensional array to Indirect(Plus(Variable a, i)).
C15_IndexDesugared ==
    op = "expression" =>
        /\ \A n \in {"m", "w"}, i \in IndexSlices, j \in IndexSlices :
               tokens = <<Var(n)>> \o Bracketed(i) \o Bracketed(j) \o <<Tok("SemiColon")>> =>
                   tree.ast = <<"Indirect",
                                <<"Plus", OperandOf(Var(n)),
                                  <<"Plus",
                                    <<"Multiple", IndexAst(i), <<"Factor", Shape(n)[2]>>>>,
                                    IndexAst(j)>>>>>>
        /\ \A i \in IndexSlices :
               tokens = <<Var("v")>> \o Bracketed(i) \o <<Tok("SemiColon")>> =>
                   tree.ast = <<"Indirect", <<"Plus", OperandOf(Var("v")), IndexAst(i)>>>>

\* m[1][2 + b] on int m[2][3] was parsed, with the stride 3
C15_Witness ==
    /\ op = "expression"
    /\ tokens = <<Var("m")>> \o Bracketed(<<Num(<<1>>)>>)
                    \o Bracketed(<<Num(<<2>>), Tok("Plus"), Var("b")>>) \o <<Tok("SemiColon")>>
    /\ tree.ast = <<"Indirect",
                    <<"Plus", <<"Variable", "Int", Array(<<2, 3>>), "m">>,
                      <<"Plus", <<"Multiple", <<"Factor", 1>>, <<"Factor", 3>>>>,
                        <<"Plus", <<"Factor", 2>>, <<"Variable", "Int", Identifier, "b">>>>>>>>>>

\* the number of entries of const_literal with the label .LC<i>
LabelCount(i) == Cardinality({k \in 1..Len(const_literal) : const_literal[k].label = i})

\* C16: the string literals get the pool indices 0, 1, 2, ... in order of
\* appearance, one fresh index per occurrence, so no two StringLiteral nodes
\* share an index; and the generator emits the label .LC<i> once for every
\* node it has visited and never more than once.
C16_FreshLiteralIndex ==
    /\ str_count = Len(literals)
    /\ \A k \in 1..Len(literals) : literals[k].index = k - 1
    /\ \A j, k \in 1..Len(literals) : literals[j].index = literals[k].index => j = k
    /\ \A k \in 1..Len(literals) :
           LabelCount(literals[k].index) = IF k \in generated THEN 1 ELSE 0
    /\ Len(const_literal) = Cardinality(generated)

\* two occurrences of one text were parsed and generated, the later first
C16_Witness ==
    /\ Len(literals) >= 2
    /\ literals[1].text = literals[2].text
    /\ generated = 1..Len(literals)
    /\ const_literal[1].label = 1 /\ const_literal[2].label = 0

\* C17: over the generation of a whole program every call of next_label or
\* next_return_label returns a value strictly greater than every value
\* returned before: no label number is handed out twice, and no two pending
\* constructs or functions hold the same jump target.
C17_LabelsStrictlyIncrease ==
    /\ \A i, j \in 1..Len(minted) : i < j => minted[i] < minted[j]
    /\ \A i \in 1..Len(minted) : minted[i] <= label.label_no
    /\ \A i, j \in 1..Len(frames) :
           i # j => ({frames[i].begin, frames[i].cont, frames[i].end} \ {0})
                        \cap {frames[j].begin, frames[j].cont, frames[j].end} = {}

\* a second function got its return label after the loop of the first
C17_Witness ==
    /\ op = "funcdef"
    /\ Len(minted) >= 4
    /\ label.return_label = minted[Len(minted)]
    /\ Len(labels_out) >= 3

\* the loops that enclose the statement generated next, innermost last
EnclosingLoops == SelectSeq(frames, LAMBDA f : f.kind \in LoopKinds)

InLoop == EnclosingLoops # <<>>

NearestLoop == EnclosingLoops[Len(EnclosingLoops)]

\* C18: every jump a continue statement generates goes to the continue
\* target of the nearest enclosing loop and every jump a break statement
\* generates to that loop's end target, for any number of continue and break
\* statements in one body and any nesting depth.
C18_JumpToNearestLoop ==
    /\ (op = "continue" /\ ~aborted) =>
           InLoop /\ inst = <<Ins("jmp", NearestLoop.cont)>>
    /\ (op = "break" /\ ~aborted) =>
           InLoop /\ inst = <<Ins("jmp", NearestLoop.end)>>

\* C19: generating a continue or break statement aborts if and only if no
\* loop encloses the statement; inside a loop body it never aborts.
C19_AbortOnlyOutsideLoops ==
    op \in {"continue", "break"} => (aborted <=> ~InLoop)

\* how often generate_label_inst has emitted the label
Emitted(no) == Cardinality({k \in 1..Len(labels_out) : labels_out[k] = no})

\* C20: a function's return label is allocated once, before its body: it
\* stays the Label's return label while the body is generated and is not
\* emitted inside the body; every return statement of the body jumps to it;
\* and it is emitted exactly once, right before leave and ret.
C20_OneReturnLabel ==
    /\ frames # <<>> =>
           /\ frames[1].kind = "funcdef"
           /\ get_return_label(label) = frames[1].end
           /\ Emitted(frames[1].end) = 0
    /\ op = "return" => inst = <<Ins("jmp", frames[1].end)>>
    /\ op = "funcdef_end" =>
           /\ inst = <<Ins("label", label.return_label), Ins("leave", 0), Ins("ret", 0)>>
           /\ Emitted(label.return_label) = 1
    /\ \A k \in 1..Len(labels_out) : Emitted(labels_out[k]) = 1

\* a return statement inside a loop of the second function was generated
C20_Witness ==
    /\ op = "return"
    /\ Len(frames) >= 2
    /\ frames[1].end > 1
    /\ label.label_no > frames[1].end
    /\ inst = <<Ins("jmp", frames[1].end)>>

(***************************************************************************)
(* Vocabulary of the claims about the generated text and its runs          *)
(***************************************************************************)
\* the generator has run and has not panicked
Generated == op \in {"exec", "step"} /\ ~aborted

\* the text has run to its end
Ran == Generated /\ cpu.pc > Len(inst)

\* one node of a function's block was generated
NodeRun == cur_scope.kind = "Local"

\* the node, or the first node of the tree
Root == tree[1]

\* values pushed and not popped, less the pops that found the stack empty
Depth == Len(cpu.stack) - cpu.under

\* the cell of a variable: rbp-(offset+8), or the global's address
Cell(sym) == IF sym.scope = Global THEN GlobalAddress(sym.var) ELSE 0 - (sym.offset + 8)

\* the value of an expression without side effects in the current memory
RECURSIVE Eval(_)
Eval(e) ==
    CASE e[1] = "Factor" -> e[2]
      [] e[1] = "Variable" -> cpu.mem[Cell(get_var_symbol(table, cur_scope, e[4]).sym[1])]
      [] e[1] = "Plus" -> Eval(e[2]) + Eval(e[3])
      [] e[1] = "Multiple" -> Eval(e[2]) * Eval(e[3])

\* the lines the generator emits for node e in the current scope
LinesOf(e) == generate(AsmOf(cur_scope), e).inst

\* C21: when the text of a node has run to its end, the stack is one value
\* deeper than before if is_expr() is true of the node and as deep as before
\* if the node is a control-flow statement; a block of statements, each
\* followed by generate_statement's pop, leaves the depth unchanged.
C21_StackDiscipline ==
    (Ran /\ NodeRun) =>
        Depth = CASE Root[1] = "Statement" -> 0
                  [] Root[1] # "Statement" /\ is_expr(Root) -> 1
                  [] OTHER -> 0

\* C22: when the text of a && b or a || b has run to its end, exactly one
\* value is on the stack and it is 0 or 1; and if a was 0 (for &&) or
\* non-zero (for ||), no line of b was executed.
C22_ShortCircuit ==
    (Ran /\ NodeRun /\ Root[1] \in {"LogicalAnd", "LogicalOr"}) =>
        /\ Depth = 1
        /\ Len(cpu.stack) = 1
        /\ cpu.stack[1] \in {0, 1}
        /\ \/ (Root[1] = "LogicalAnd") # (Eval(Root[2]) = 0)
           \/ LET from == Len(LinesOf(Root[2])) + 3
              IN \A pc \in cpu.trace :
                     pc <= from \/ pc > from + Len(LinesOf(Root[3]))

\* a && b with a = 0 and b = ++i has run: 0 is on the stack and i is unchanged
C22_Witness ==
    /\ Ran
    /\ NodeRun
    /\ Root[1] = "LogicalAnd"
    /\ Root[2] = <<"Factor", 0>>
    /\ Root[3][1] = "PreInc"
    /\ cpu.stack = <<0>>
    /\ cpu.trace # {}

\* the names a tree declares: its global variables and its functions
Labelled(t) ==
    {t[k][4] : k \in {j \in 1..Len(t) : t[j][1] = "FuncDef"}}
    \cup UNION {{IF n[1] = "Assign" THEN n[2][4] ELSE n[4] :
                    n \in {t[k][2][j] : j \in 1..Len(t[k][2])}} :
                k \in {j \in 1..Len(t) : t[j][1] = "Global"}}

\* C23: the text get_inst returns for a whole program starts with the .data
\* directive and holds exactly one label line for each global variable and
\* each function of the program.
C23_OutputStructure ==
    (Generated /\ ~NodeRun) =>
        /\ inst # <<>>
        /\ inst[1].op = ".data"
        /\ \A name \in Labelled(tree) :
               Cardinality({k \in 1..Len(inst) :
                                inst[k].op = "symbol" /\ inst[k].src = name}) = 1

\* C24: the lines generated for &v are the lines the shared lvalue
\* addressing generates for v, so both push the same address.
C24_AddressIsLvalueAddress ==
    (Generated /\ NodeRun /\ Root[1] = "Address") =>
        inst = generate_lvalue_address(AsmOf(cur_scope), Root[2]).inst

\* C25: when the text of p + e or p - e with p a pointer variable has run,
\* the value on the stack is p + 8 * e or p - 8 * e.
C25_PointerScaled ==
    (Ran /\ NodeRun /\ Root[1] \in {"Plus", "Minus"} /\ Root[2][1] = "Variable"
         /\ Root[2][3].kind = "Pointer") =>
        cpu.stack = <<IF Root[1] = "Plus"
                      THEN Eval(Root[2]) + 8 * Eval(Root[3])
                      ELSE Eval(Root[2]) - 8 * Eval(Root[3])>>

\* the number of bytes the prologue in the text subtracts from rsp
Reserved == inst[CHOOSE k \in 1..Len(inst) : inst[k].op = "sub_imm" /\ inst[k].dst = "rsp"].imm

\* the function definition of a whole program
Definition == tree[CHOOSE k \in 1..Len(tree) : tree[k][1] = "FuncDef"]

\* C26: the frame the prologue reserves is a multiple of 16 bytes and
\* every symbol of the function's local scope ends inside it.
C26_FrameCoversLocals ==
    (Generated /\ ~NodeRun) =>
        /\ Reserved % 16 = 0
        /\ \A k \in 1..count(table, Local(Definition[4])) :
               LET sym == FilterScope(table, Local(Definition[4]))[k]
               IN sym.offset + Footprint(sym) <= Reserved

\* the block that marks variable i with 5 (if it runs) and the one that
\* marks it with 6
Marks(block, n) ==
    block = <<"Statement",
              <<<<"Assign", <<"Variable", "Int", Identifier, "i">>, <<"Factor", n>>>>>>>>

Marked(n) == cpu.mem[Cell(get_var_symbol(table, cur_scope, "i").sym[1])] = n

C30_ParameterSlots ==
    /\ (Generated /\ ~NodeRun) =>
           LET params == Definition[5][2]
               locals == FilterScope(table, Local(Definition[4]))
           IN \A k \in 1..Len(params) :
                  /\ \E j \in 1..Len(inst) :
                         inst[j] = I("mov_dst", IF params[k][3].kind = "Pointer"
                                               THEN REGS[k] ELSE "rax", "rbp", 0 - 8 * k)
                  /\ k <= Len(locals)
                  /\ locals[k].var = params[k][4]
                  /\ generate_lvalue_address(AsmOf(Local(Definition[4])), params[k]).inst[1]
                         = I("lea", "", "rax", 8 * k)
    /\ (Ran /\ NodeRun /\ Root[1] = "FuncCall") =>
           /\ Len(cpu.calls) = 1
           /\ \A k \in 1..Len(Root[3][2]) : cpu.calls[1][k] = Eval(Root[3][2][k])
           /\ Len(cpu.stack) = 1
           /\ Depth = 1

\* C27: defining a struct whose tag is new adds one symbol to the current
\* scope, the tag with the members as its member list; no member becomes a
\* symbol of the scope, and count, size and the place of the next symbol
\* are what they are with the tag alone.
C27_StructAddsOneSymbol ==
    (op = "struct_def" /\ search_symbol(prev, cur_scope, Arg.var).sym = None) =>
        /\ count(table, cur_scope) = count(prev, cur_scope) + 1
        /\ size(table, cur_scope) = size(prev, cur_scope)
        /\ search(table, cur_scope, Arg.var) # None
        /\ search(table, cur_scope, Arg.var)[1].members = Arg.members
        /\ \A k \in 1..Len(Arg.members) :
               search(table, cur_scope, Arg.members[k].var)
                   = search(prev, cur_scope, Arg.members[k].var)
        /\ Place(FilterScope(table, cur_scope))
               = Place(FilterScope(register_sym(prev, Arg), cur_scope))

\* C28: c[i][j][k] on an array declared with shape [d0, d1, d2] parses to
\* Indirect(Plus(Variable c, offset)) with an offset expression of the value
\* i*d1*d2 + j*d2 + k, which is below d0*d1*d2 for the indices in range.
C28_RowMajor ==
    op = "expression" =>
        \A i \in 0..1, j \in 0..2, k \in 0..1 :
            tokens = <<Var("c")>> \o Bracketed(<<Num(<<i>>)>>) \o Bracketed(<<Num(<<j>>)>>)
                         \o Bracketed(<<Num(<<k>>)>>) \o <<Tok("SemiColon")>> =>
                /\ tree.ast[1] = "Indirect"
                /\ tree.ast[2] = <<"Plus", OperandOf(Var("c")), tree.ast[2][3]>>
                /\ Eval(tree.ast[2][3])
                       = i * Shape("c")[2] * Shape("c")[3] + j * Shape("c")[3] + k
                /\ Eval(tree.ast[2][3]) < Shape("c")[1] * Shape("c")[2] * Shape("c")[3]

====
